---- MODULE Spec2Model ----
(***************************************************************************)
(* A model of cntlm's main.c: the acceptor loop of main(), the signal      *)
(* handler, the life cycle of the three kinds of workers, the dispatch     *)
(* loop of proxy_thread() and the protocol steps of socks5_thread().       *)
(***************************************************************************)
EXTENDS Integers, Sequences, FiniteSets, TLC

(***************************************************************************)
(* Bounds of the model.                                                    *)
(***************************************************************************)
\* connection attempts select() reports over the life of the process
MaxConn == 2
\* signals delivered to the process
MaxSignals == 2
\* connection attempts in the specifications with fairness
MaxLiveConn == 1

(***************************************************************************)
(* Start-up state of main(): the three listener lists.  A plist maps a key *)
(* (the listening socket) to an aux pointer (the tunnel target).           *)
(***************************************************************************)
proxyd_list == {"fd3"}
socksd_list == {"fd4"}
tunneld_list == [fd2 |-> "hostA:22", fd5 |-> "hostB:443"]

\* the descriptors main() puts into the fd_set before select()
WatchedFds == proxyd_list \cup socksd_list \cup DOMAIN tunneld_list

\* the order in which for (i = 0; i < FD_SETSIZE; ++i) visits descriptors
FdOrder == <<"fd2", "fd3", "fd4", "fd5">>

FirstSet(S) ==
    LET idx == CHOOSE k \in 1..Len(FdOrder) :
                  /\ FdOrder[k] \in S
                  /\ \A j \in 1..(k-1) : FdOrder[j] \notin S
    IN FdOrder[idx]

NoTarget == "NULL"

VARIABLES
    quit,           \* int quit
    debug,          \* int debug
    serialize,      \* int serialize
    nsig,           \* signals delivered so far (bounds the model)
    pc,             \* where main() is
    rset,           \* fd_set left to visit in the for loop after select()
    attempts,       \* connection attempts so far (bounds the model)
    tid,            \* int tid of the loop body
    tc,             \* unsigned tc: created threads
    tj,             \* unsigned tj: joined threads
    conns,          \* accepted connections, in order; index = socket/thread id
    threads_list,   \* plist_t threads_list
    threads_mtx,    \* owner of threads_mtx
    t,              \* plist_t t of the join loop
    users_list,     \* hlist_t users_list: <<name, password>> pairs
    noproxy_list,   \* plist_t noproxy_list: glob patterns
    charSigned,     \* whether plain char is signed in this build
    s5pc,           \* where socks5_thread() is
    found,          \* int found
    c,              \* int c
    auths,          \* unsigned char *auths
    client,         \* the credentials the client put on the wire
    uname,          \* char *uname
    upass,          \* char *upass
    bs,             \* unsigned char *bs: <<bs[1], bs[3]>> of the request
    thost,          \* char *thost
    addr,           \* unsigned char *addr: the address as the client sent it
    port,           \* unsigned short port, in decimal digits
    out,            \* the outbound connection attempt of socks5_thread()
    sd,             \* int sd: the outbound socket
    sent,           \* what was written to the client socket, in order
    closes,         \* close() calls: <<on cd, on sd>>
    pacBuild,       \* whether the build defines ENABLE_PACPARSER
    pacparser_initialized, \* int pacparser_initialized
    pxpc,           \* where proxy_thread() is
    request,        \* rr_data_t request
    ret,            \* rr_data_t ret
    keep_alive,     \* int keep_alive
    pac_found,      \* int pac_found
    pac_list,       \* plist_t pac_list
    call,           \* the last call of a forwarder
    nreq,           \* requests read from the client (bounds the model)
    nredisp,        \* records handed back by forwarders (bounds the model)
    pxclosed,       \* close(cd) calls of proxy_thread()
    pacparser_mtx,  \* owner of pacparser_mtx
    connection_mtx, \* owner of connection_mtx
    pac_engine,     \* the PAC evaluator: "off", "up" or "cleaned"
    pacp_str,       \* the evaluator's result string, shared by its callers
    pw,             \* the proxy workers that run side by side
    spc,            \* where the start-up part of main() is
    argv,           \* the options getopt() has not returned yet
    cf,             \* config_t cf: the configuration file
    krb,            \* ENABLE_KERBEROS build with a cached credential
    gateway,        \* int gateway
    ntlmbasic,      \* int ntlmbasic
    interactivepwd, \* int interactivepwd
    interactivehash, \* int interactivehash
    magic_detect,   \* char *magic_detect, as a flag
    cpassword,      \* char *cpassword: the MINIBUF_SIZE bytes of the buffer
    cpassntlm2,     \* char *cpassntlm2, as a string
    cpassnt,        \* char *cpassnt, as a string
    cpasslm,        \* char *cpasslm, as a string
    cauth,          \* char *cauth, as a string
    g_creds,        \* struct auth_s *g_creds
    parent_list,    \* the parent proxies
    bound,          \* the listeners so_listen() has bound
    freed,          \* the free() calls on buffers of secrets
    supplied,       \* the cleartext passwords stored in cpassword, in order
    pac,            \* int pac
    connection_list, \* plist_t connection_list: the cached upstream sockets
    fw,             \* the workers inside a forwarder
    upstream,       \* the upstream sockets dialled so far
    nfw             \* requests forwarded so far (bounds the model)

accVars == <<quit, debug, serialize, nsig, pc, rset, attempts, tid, tc, tj,
             conns, threads_list, threads_mtx, t>>

cfgVars == <<users_list, noproxy_list, charSigned, pacBuild,
             pacparser_initialized>>

s5Vars == <<s5pc, found, c, auths, client, uname, upass, bs, thost, addr, port,
            out, sd, sent,
            closes>>

pxVars == <<pxpc, request, ret, keep_alive, pac_found, pac_list, call, nreq,
            nredisp, pxclosed>>

pwVars == <<pacparser_mtx, connection_mtx, pac_engine, pacp_str, pw>>

startVars == <<spc, argv, cf, krb, gateway, ntlmbasic, interactivepwd,
               interactivehash, magic_detect, cpassword, cpassntlm2, cpassnt,
               cpasslm, cauth, g_creds, parent_list, bound, freed, supplied,
               pac>>

poolVars == <<connection_list, fw, upstream, nfw>>

vars == <<accVars, cfgVars, s5Vars, pxVars, pwVars, startVars, poolVars>>

\* owners of a mutex: nobody, the acceptor, or worker w
Free == <<>>
MainOwner == <<"main">>
Owner(w) == <<"worker", w>>

(***************************************************************************)
(* Start-up of main(): the buffers, the command line and the configuration *)
(* file.  A string is a tuple of characters; a buffer is the tuple of its  *)
(* bytes, so that what a shorter string leaves behind stays visible.       *)
(***************************************************************************)
\* the size of the small string buffers (cpassword, cauth, thost, tport)
MINIBUF_SIZE == 50

\* the terminating byte of a C string
NUL == "NUL"

\* zmalloc(n): n bytes, all zero
zmalloc(n) == [i \in 1..n |-> NUL]

\* the passwords of the model
Secret == <<"s", "e", "c", "r", "e", "t">>
Short == <<"a", "b">>

\* a listener specification [host:]port, split at its colon
NoHost == ""
ListenSpec(host, lport) == <<host, lport>>

\* a port another process holds, and the name of a PAC file
BusyPort == "80"
PacFile == <<"p", "a", "c">>

\* the options getopt() returns, with their arguments
NoArg == <<>>
Opt(o, optarg) == [opt |-> o, optarg |-> optarg]

Options ==
    { Opt("p", Secret), Opt("p", Short), Opt("I", NoArg), Opt("H", NoArg),
      Opt("B", NoArg), Opt("g", NoArg), Opt("M", NoArg),
      Opt("l", ListenSpec(NoHost, "3128")),
      Opt("O", ListenSpec(NoHost, "1080")),
      Opt("L", ListenSpec(NoHost, "2222")),
      Opt("l", ListenSpec(NoHost, BusyPort)),
      Opt("x", PacFile),
      Opt("a", <<"n", "t">>), Opt("a", <<"x">>) }

\* the keys of a configuration file the model reads; NoConfig: cf == NULL
NoConfig ==
    [present |-> FALSE, Gateway |-> FALSE, NTLMToBasic |-> FALSE,
     Listen |-> {}, SOCKS5Proxy |-> {}, Tunnel |-> {}, Proxy |-> <<>>,
     Auth |-> <<>>, Password |-> <<>>, PassNTLMv2 |-> <<>>, PassNT |-> <<>>,
     PassLM |-> <<>>, Pac |-> FALSE]

ConfigWith(fields) ==
    [k \in DOMAIN NoConfig |->
        IF k \in DOMAIN fields THEN fields[k]
        ELSE IF k = "present" THEN TRUE
        ELSE IF k = "Proxy" THEN <<"proxy:8080">>
        ELSE IF k = "Listen" THEN {ListenSpec(NoHost, "3129")}
        ELSE NoConfig[k]]

\* the text of a hash in the configuration file: good hexadecimal or not
HexGood == <<"A", "1">>
HexBad == <<"z", "z">>

ConfigFiles ==
    { NoConfig,
      ConfigWith([Gateway |-> TRUE]),
      ConfigWith([Password |-> Secret]),
      ConfigWith([PassNT |-> HexGood, Auth |-> <<"n", "t", "l", "m">>]),
      ConfigWith([PassNTLMv2 |-> HexBad]),
      ConfigWith([Password |-> Secret, Proxy |-> <<>>, Pac |-> TRUE]),
      ConfigWith([Password |-> Secret, Listen |-> {},
                  SOCKS5Proxy |-> {ListenSpec(NoHost, "1081")}]),
      ConfigWith([PassNTLMv2 |-> HexGood, NTLMToBasic |-> TRUE,
                  SOCKS5Proxy |-> {ListenSpec(NoHost, "1081")},
                  Tunnel |-> {ListenSpec(NoHost, "2223")}]) }

\* a hash that is all zero bytes, and the hashes of the model
ZeroHash == <<>>
HashOf(kind, password) == <<kind>> \o password
FromHex(text) == <<"hex">> \o text

\* g_creds = new_auth(): the policy and the hashes of a new credential
new_auth ==
    [hashnt |-> 0, hashlm |-> 0, hashntlm2 |-> 1, haskrb |-> FALSE,
     passnt |-> ZeroHash, passlm |-> ZeroHash, passntlm2 |-> ZeroHash]

\* connection_list = NULL, and no worker is inside a forwarder
PoolStart ==
    /\ connection_list = <<>>
    /\ fw = <<>>
    /\ upstream = <<>>
    /\ nfw = 0

\* main() has reached the acceptor loop
StartDone ==
    /\ spc = "loop"
    /\ argv = <<>>
    /\ cf = NoConfig
    /\ krb = FALSE
    /\ gateway = FALSE
    /\ ntlmbasic = FALSE
    /\ interactivepwd = FALSE
    /\ interactivehash = FALSE
    /\ magic_detect = FALSE
    /\ cpassword = zmalloc(MINIBUF_SIZE)
    /\ cpassntlm2 = <<>>
    /\ cpassnt = <<>>
    /\ cpasslm = <<>>
    /\ cauth = <<>>
    /\ g_creds = [new_auth EXCEPT !.passntlm2 = FromHex(HexGood)]
    /\ parent_list = <<"proxy:8080">>
    /\ bound = {}
    /\ freed = {}
    /\ supplied = <<>>
    /\ pac = FALSE

(***************************************************************************)
(* sighandler(): if (quit++ || debug) quit++;                              *)
(***************************************************************************)
sighandler(q, dbg) ==
    IF q # 0 \/ dbg THEN q + 2 ELSE q + 1

\* sighandler(): if (!quit) { if (pacparser_initialized) pacparser_cleanup(); }
pacparser_cleanup(q, engine) ==
    IF q = 0 /\ pacBuild /\ pacparser_initialized THEN "cleaned" ELSE engine

(***************************************************************************)
(* The condition of the acceptor loop.                                     *)
(***************************************************************************)
LoopCondExitsOnFirstSignal(q, created, joined) ==
    q = 0

LoopCondIgnoresSecondSignal(q, created, joined) ==
    q = 0 \/ created # joined

LoopCond(q, created, joined) ==
    q = 0 \/ (created # joined /\ q < 2)

(***************************************************************************)
(* Dispatch of an accepted connection by the listener it arrived on.       *)
(***************************************************************************)
DispatchRoutineSwapped(i) ==
    IF i \in proxyd_list THEN "proxy_thread"
    ELSE IF i \in DOMAIN tunneld_list THEN "socks5_thread"
    ELSE "tunnel_thread"

DispatchRoutine(i) ==
    IF i \in proxyd_list THEN "proxy_thread"
    ELSE IF i \in socksd_list THEN "socks5_thread"
    ELSE "tunnel_thread"

plist_get(list, key) ==
    IF key \in DOMAIN list THEN list[key] ELSE NoTarget

DispatchTargetFirstEntry(i) ==
    IF DispatchRoutine(i) = "tunnel_thread"
    THEN plist_get(tunneld_list, FirstSet(DOMAIN tunneld_list))
    ELSE NoTarget

\* data->target: set only in the tunnel branch; zmalloc() leaves it NULL
DispatchTarget(i) ==
    IF DispatchRoutine(i) = "tunnel_thread"
    THEN plist_get(tunneld_list, i)
    ELSE NoTarget

\* proxy_thread() is called on the acceptor itself when serialize is set
DispatchInline(i, ser) ==
    DispatchRoutine(i) = "proxy_thread" /\ ser

\* the workers that put themselves on threads_list before they return
Enqueues(routine, ser) ==
    \/ routine = "tunnel_thread"
    \/ routine = "proxy_thread" /\ ~ser

\* the locals of socks5_thread() at its start
Unset == "unset"
NoClient == [uname |-> Unset, pass |-> Unset, whole |-> FALSE]

NoOut == [via |-> "none", host |-> <<>>, port |-> <<>>, ok |-> FALSE]

S5Start ==
    /\ s5pc = "version"
    /\ found = 0 - 1
    /\ c = 0
    /\ auths = <<>>
    /\ client = NoClient
    /\ uname = Unset
    /\ upass = Unset
    /\ bs = <<>>
    /\ thost = <<>>
    /\ addr = <<>>
    /\ port = <<>>
    /\ out = NoOut
    /\ sd = "none"
    /\ sent = <<>>
    /\ closes = <<0, 0>>

\* the locals of proxy_thread() at its start
NoRequest == [hostname |-> <<>>, ka |-> FALSE, origin |-> "none"]
RetNull == [code |-> "NULL", rec |-> NoRequest]
NoCall == [fwd |-> "none", request |-> NoRequest, list |-> <<>>]

\* the proxy workers have not been created
PwStart ==
    /\ pacparser_mtx = Free
    /\ connection_mtx = Free
    /\ pac_engine = IF pacparser_initialized THEN "up" ELSE "off"
    /\ pacp_str = <<>>
    /\ pw = <<>>

PxStart ==
    /\ pxpc = "recv"
    /\ request = NoRequest
    /\ ret = RetNull
    /\ keep_alive = FALSE
    /\ pac_found = FALSE
    /\ pac_list = <<>>
    /\ call = NoCall
    /\ nreq = 0
    /\ nredisp = 0
    /\ pxclosed = 0

(***************************************************************************)
(* Initial state: the state of main() when it reaches the acceptor loop.   *)
(***************************************************************************)
AccStart ==
    /\ quit = 0
    /\ nsig = 0
    /\ pc = "test"
    /\ rset = {}
    /\ attempts = 0
    /\ tid = 0
    /\ tc = 0
    /\ tj = 0
    /\ conns = <<>>
    /\ threads_list = <<>>
    /\ threads_mtx = Free
    /\ t = <<>>

Init ==
    /\ AccStart
    /\ debug \in BOOLEAN
    /\ serialize \in BOOLEAN
    /\ users_list = <<>>
    /\ noproxy_list = <<>>
    /\ charSigned = TRUE
    /\ pacBuild = FALSE
    /\ pacparser_initialized = FALSE
    /\ S5Start
    /\ PxStart
    /\ PwStart
    /\ StartDone
    /\ PoolStart

(***************************************************************************)
(* A signal arrives (SIGINT, SIGTERM, SIGHUP).                             *)
(***************************************************************************)
Signal ==
    /\ pc # "exited"
    /\ nsig < MaxSignals
    /\ nsig' = nsig + 1
    /\ quit' = sighandler(quit, debug)
    /\ pac_engine' = pacparser_cleanup(quit, pac_engine)
    /\ UNCHANGED <<cfgVars, s5Vars, pxVars>>
    /\ UNCHANGED <<pacparser_mtx, connection_mtx, pacp_str, pw, startVars, poolVars>>
    /\ UNCHANGED <<debug, serialize, pc, rset, attempts, tid, tc, tj, conns,
                   threads_list, threads_mtx, t>>

(***************************************************************************)
(* main(): while (quit == 0 || (tc != tj && quit < 2))                     *)
(***************************************************************************)
LoopTest ==
    /\ pc = "test"
    /\ IF LoopCond(quit, tc, tj)
       THEN /\ pc' = "select"
            /\ tid' = 0
       ELSE /\ pc' = "bailout"
            /\ tid' = tid
    /\ UNCHANGED <<cfgVars, s5Vars, pxVars, pwVars, startVars, poolVars>>
    /\ UNCHANGED <<quit, debug, serialize, nsig, rset, attempts, tc, tj, conns,
                   threads_list, threads_mtx, t>>

\* select() returns the listeners with a pending connection, or nothing
\* (timeout after one second, or an error)
Select(maxc) ==
    /\ pc = "select"
    /\ \E S \in SUBSET WatchedFds :
          /\ attempts + Cardinality(S) <= maxc
          /\ rset' = S
          /\ attempts' = attempts + Cardinality(S)
          /\ pc' = IF S = {} THEN "reap" ELSE "accept"
    /\ UNCHANGED <<cfgVars, s5Vars, pxVars, pwVars, startVars, poolVars>>
    /\ UNCHANGED <<quit, debug, serialize, nsig, tid, tc, tj, conns,
                   threads_list, threads_mtx, t>>

\* the for loop has visited every descriptor of the set
AcceptDone ==
    /\ pc = "accept"
    /\ rset = {}
    /\ pc' = "reap"
    /\ UNCHANGED <<cfgVars, s5Vars, pxVars, pwVars, startVars, poolVars>>
    /\ UNCHANGED <<quit, debug, serialize, nsig, rset, attempts, tid, tc, tj,
                   conns, threads_list, threads_mtx, t>>

\* accept() fails: continue with the next descriptor
AcceptFail ==
    /\ pc = "accept"
    /\ rset # {}
    /\ rset' = rset \ {FirstSet(rset)}
    /\ UNCHANGED <<cfgVars, s5Vars, pxVars, pwVars, startVars, poolVars>>
    /\ UNCHANGED <<quit, debug, serialize, nsig, pc, attempts, tid, tc, tj,
                   conns, threads_list, threads_mtx, t>>

NewConn(i, mode, st) ==
    [lfd |-> i, routine |-> DispatchRoutine(i), target |-> DispatchTarget(i),
     mode |-> mode, st |-> st]

\* accept() succeeds and pthread_create() starts the worker
AcceptSpawn ==
    /\ pc = "accept"
    /\ rset # {}
    /\ LET i == FirstSet(rset) IN
          /\ ~DispatchInline(i, serialize)
          /\ conns' = Append(conns, NewConn(i, "thread", "serving"))
          /\ rset' = rset \ {i}
    /\ tid' = 0
    /\ pc' = "count"
    /\ UNCHANGED <<cfgVars, s5Vars, pxVars, pwVars, startVars, poolVars>>
    /\ UNCHANGED <<quit, debug, serialize, nsig, attempts, tc, tj,
                   threads_list, threads_mtx, t>>

\* accept() succeeds and pthread_create() fails: no worker runs
AcceptSpawnFail ==
    /\ pc = "accept"
    /\ rset # {}
    /\ LET i == FirstSet(rset) IN
          /\ ~DispatchInline(i, serialize)
          /\ conns' = Append(conns, NewConn(i, "failed", "none"))
          /\ rset' = rset \ {i}
    /\ tid' = 1
    /\ pc' = "count"
    /\ UNCHANGED <<cfgVars, s5Vars, pxVars, pwVars, startVars, poolVars>>
    /\ UNCHANGED <<quit, debug, serialize, nsig, attempts, tc, tj,
                   threads_list, threads_mtx, t>>

\* accept() succeeds and proxy_thread() is called on the acceptor
AcceptInline ==
    /\ pc = "accept"
    /\ rset # {}
    /\ LET i == FirstSet(rset) IN
          /\ DispatchInline(i, serialize)
          /\ conns' = Append(conns, NewConn(i, "inline", "serving"))
          /\ rset' = rset \ {i}
    /\ pc' = "inline"
    /\ UNCHANGED <<cfgVars, s5Vars, pxVars, pwVars, startVars, poolVars>>
    /\ UNCHANGED <<quit, debug, serialize, nsig, attempts, tid, tc, tj,
                   threads_list, threads_mtx, t>>

\* if (tid) syslog(...); else tc++;
Count ==
    /\ \/ pc = "count"
       \/ pc = "inline" /\ conns[Len(conns)].st = "returned"
    /\ tc' = IF tid = 0 THEN tc + 1 ELSE tc
    /\ pc' = "accept"
    /\ UNCHANGED <<cfgVars, s5Vars, pxVars, pwVars, startVars, poolVars>>
    /\ UNCHANGED <<quit, debug, serialize, nsig, rset, attempts, tid, tj, conns,
                   threads_list, threads_mtx, t>>

\* if (threads_list) is false: nothing to join
ReapSkip ==
    /\ pc = "reap"
    /\ threads_list = <<>>
    /\ pc' = "test"
    /\ UNCHANGED <<cfgVars, s5Vars, pxVars, pwVars, startVars, poolVars>>
    /\ UNCHANGED <<quit, debug, serialize, nsig, rset, attempts, tid, tc, tj,
                   conns, threads_list, threads_mtx, t>>

\* pthread_mutex_lock(&threads_mtx); t = threads_list;
ReapLock ==
    /\ pc = "reap"
    /\ threads_list # <<>>
    /\ threads_mtx = Free
    /\ threads_mtx' = MainOwner
    /\ t' = threads_list
    /\ pc' = "join"
    /\ UNCHANGED <<cfgVars, s5Vars, pxVars, pwVars, startVars, poolVars>>
    /\ UNCHANGED <<quit, debug, serialize, nsig, rset, attempts, tid, tc, tj,
                   conns, threads_list>>

\* pthread_join() returns once the thread has ended; tj++
JoinOne ==
    /\ pc = "join"
    /\ t # <<>>
    /\ conns[Head(t)].st = "terminated"
    /\ conns' = [conns EXCEPT ![Head(t)].st = "joined"]
    /\ tid' = 0
    /\ tj' = tj + 1
    /\ t' = Tail(t)
    /\ UNCHANGED <<cfgVars, s5Vars, pxVars, pwVars, startVars, poolVars>>
    /\ UNCHANGED <<quit, debug, serialize, nsig, pc, rset, attempts, tc,
                   threads_list, threads_mtx>>

\* threads_list = NULL; pthread_mutex_unlock(&threads_mtx);
JoinEnd ==
    /\ pc = "join"
    /\ t = <<>>
    /\ threads_list' = <<>>
    /\ threads_mtx' = Free
    /\ pc' = "test"
    /\ UNCHANGED <<cfgVars, s5Vars, pxVars, pwVars, startVars, poolVars>>
    /\ UNCHANGED <<quit, debug, serialize, nsig, rset, attempts, tid, tc, tj,
                   conns, t>>

\* bailout: takes frees the lists and calls exit(0)
Bailout ==
    /\ pc = "bailout"
    /\ pc' = "exited"
    /\ UNCHANGED <<cfgVars, s5Vars, pxVars, pwVars, startVars, poolVars>>
    /\ UNCHANGED <<quit, debug, serialize, nsig, rset, attempts, tid, tc, tj,
                   conns, threads_list, threads_mtx, t>>

(***************************************************************************)
(* Workers.  A worker exists while the process does (pc # "exited").       *)
(***************************************************************************)
Running(w) ==
    /\ pc # "exited"
    /\ w \in 1..Len(conns)

\* the worker has served its connection (its loops end, its tunnel closes)
WorkerFinish(w) ==
    /\ Running(w)
    /\ conns[w].st = "serving"
    /\ conns' = [conns EXCEPT ![w].st = "served"]
    /\ UNCHANGED <<cfgVars, s5Vars, pxVars, pwVars, startVars, poolVars>>
    /\ UNCHANGED <<quit, debug, serialize, nsig, pc, rset, attempts, tid, tc,
                   tj, threads_list, threads_mtx, t>>

\* pthread_mutex_lock(&threads_mtx) in proxy_thread() and tunnel_thread()
WorkerLock(w) ==
    /\ Running(w)
    /\ conns[w].st = "served"
    /\ Enqueues(conns[w].routine, serialize)
    /\ threads_mtx = Free
    /\ threads_mtx' = Owner(w)
    /\ conns' = [conns EXCEPT ![w].st = "locked"]
    /\ UNCHANGED <<cfgVars, s5Vars, pxVars, pwVars, startVars, poolVars>>
    /\ UNCHANGED <<quit, debug, serialize, nsig, pc, rset, attempts, tid, tc,
                   tj, threads_list, t>>

\* threads_list = plist_add(threads_list, thread_id, NULL); unlock
WorkerEnqueue(w) ==
    /\ Running(w)
    /\ conns[w].st = "locked"
    /\ threads_list' = Append(threads_list, w)
    /\ threads_mtx' = Free
    /\ conns' = [conns EXCEPT ![w].st = "enqueued"]
    /\ UNCHANGED <<cfgVars, s5Vars, pxVars, pwVars, startVars, poolVars>>
    /\ UNCHANGED <<quit, debug, serialize, nsig, pc, rset, attempts, tid, tc,
                   tj, t>>

WorkerReturnNeedsLock(w) ==
    /\ Running(w)
    /\ threads_mtx = Free
    /\ \/ conns[w].st = "enqueued"
       \/ conns[w].st = "served" /\ ~Enqueues(conns[w].routine, serialize)
    /\ conns' = [conns EXCEPT ![w].st =
                    IF conns[w].mode = "inline" THEN "returned" ELSE "terminated"]
    /\ UNCHANGED <<cfgVars, s5Vars, pxVars, pwVars, startVars, poolVars>>
    /\ UNCHANGED <<quit, debug, serialize, nsig, pc, rset, attempts, tid, tc,
                   tj, threads_list, threads_mtx, t>>

\* the worker returns: the thread ends, or the inline call comes back
WorkerReturn(w) ==
    /\ Running(w)
    /\ \/ conns[w].st = "enqueued"
       \/ conns[w].st = "served" /\ ~Enqueues(conns[w].routine, serialize)
    /\ conns' = [conns EXCEPT ![w].st =
                    IF conns[w].mode = "inline" THEN "returned" ELSE "terminated"]
    /\ UNCHANGED <<cfgVars, s5Vars, pxVars, pwVars, startVars, poolVars>>
    /\ UNCHANGED <<quit, debug, serialize, nsig, pc, rset, attempts, tid, tc,
                   tj, threads_list, threads_mtx, t>>

MainStep(maxc) ==
    \/ LoopTest
    \/ Select(maxc)
    \/ AcceptDone
    \/ AcceptFail
    \/ AcceptSpawn
    \/ AcceptSpawnFail
    \/ AcceptInline
    \/ Count
    \/ ReapSkip
    \/ ReapLock
    \/ JoinOne
    \/ JoinEnd
    \/ Bailout

WorkerHousekeeping(w) ==
    \/ WorkerLock(w)
    \/ WorkerEnqueue(w)
    \/ WorkerReturn(w)

Step(maxc) ==
    \/ Signal
    \/ MainStep(maxc)
    \/ \E w \in 1..maxc : WorkerFinish(w)
    \/ \E w \in 1..maxc : WorkerHousekeeping(w)

(***************************************************************************)
(* noproxy_match(): the host name against every pattern of noproxy_list.   *)
(* Names and patterns are sequences of characters; fnmatch() with flags 0  *)
(* knows ? (one character) and * (any run of characters).                  *)
(***************************************************************************)
Hosts == { <<"a">>, <<"b">>, <<"a", "b">>, <<"b", "b">> }

NoProxyLists ==
    { <<>>,
      << <<"a", "*">> >>,
      << <<"?">>, <<"b", "b">> >>,
      << <<"*", "b">>, <<"a">> >>,
      << <<"1", ".", "*">> >> }

RECURSIVE fnmatch(_, _)
fnmatch(pattern, str) ==
    IF pattern = <<>> THEN str = <<>>
    ELSE IF Head(pattern) = "*"
         THEN \/ fnmatch(Tail(pattern), str)
              \/ str # <<>> /\ fnmatch(pattern, Tail(str))
    ELSE /\ str # <<>>
         /\ Head(pattern) = "?" \/ Head(pattern) = Head(str)
         /\ fnmatch(Tail(pattern), Tail(str))

RECURSIVE NoproxyScan(_, _)
NoproxyScan(list, str) ==
    IF list = <<>> THEN FALSE
    ELSE IF Len(Head(list)) > 0 /\ fnmatch(Head(list), str) THEN TRUE
    ELSE NoproxyScan(Tail(list), str)

noproxy_match(str) == NoproxyScan(noproxy_list, str)

(***************************************************************************)
(* socks5_thread(): one SOCKS5 session, step by step.  Every read() of the *)
(* client socket either delivers what the client sent or comes back short  *)
(* (the client sent less, or closed), which the code treats as a failure.  *)
(***************************************************************************)
\* bound: methods a client offers in its greeting
MaxMethods == 2

Methods == {0, 1, 2}
Names == {"alice", "bob"}
Pwds == {"", "p", "s3", "L255"}

\* strlen() of the passwords of the model
PwLen(p) ==
    CASE p = "" -> 0
      [] p = "p" -> 1
      [] p = "s3" -> 2
      [] p = "L255" -> 255

UserTables ==
    { <<>>,
      << <<"alice", "s3">> >>,
      << <<"alice", "p">>, <<"bob", "">> >>,
      << <<"alice", "p">>, <<"alice", "s3">> >>,
      << <<"bob", "L255">> >> }

Null == "NULL"

hlist_count(list) == Len(list)

\* the value of the first entry with this key, NULL when there is none
RECURSIVE hlist_get(_, _)
hlist_get(list, key) ==
    IF list = <<>> THEN Null
    ELSE IF Head(list)[1] = key THEN Head(list)[2]
    ELSE hlist_get(Tail(list), key)

\* for (i = 0; i < c && found < 0; ++i) if (auths[i] == m) found = auths[i];
RECURSIVE ScanFor(_, _, _)
ScanFor(m, offered, fnd) ==
    IF offered = <<>> \/ fnd >= 0 THEN fnd
    ELSE ScanFor(m, Tail(offered), IF Head(offered) = m THEN Head(offered) ELSE fnd)

SelectMethodIgnoresTable(open, offered) ==
    LET f0 == ScanFor(0, offered, 0 - 1)
    IN IF f0 < 0 THEN ScanFor(2, offered, f0) ELSE f0

\* the method negotiation: no-auth when open and offered, else user/pass
SelectMethod(open, offered) ==
    LET f0 == IF open THEN ScanFor(0, offered, 0 - 1) ELSE 0 - 1
    IN IF f0 < 0 THEN ScanFor(2, offered, f0) ELSE f0

\* i = uname[c]: a char converted to int
CharToInt(octet, isSigned) ==
    IF isSigned /\ octet >= 128 THEN octet - 256 ELSE octet

\* the check of the credentials against users_list
CredentialsOkAnyKnownUser(list, name, pass) ==
    hlist_count(list) = 0 \/ hlist_get(list, name) # Null

CredentialsOk(list, name, pass) ==
    \/ hlist_count(list) = 0
    \/ hlist_get(list, name) # Null /\ hlist_get(list, name) = pass

\* the reply code of a refused request: bs[1] = 2
RefusalCode(cmd, atyp) == 2

S5Bail == s5pc' = "bailout"

\* strlcpy(dst, src, size): at most size - 1 characters of src
strlcpy(src, size) ==
    IF Len(src) <= size - 1 THEN src ELSE SubSeq(src, 1, size - 1)

\* snprintf(dst, size, ...): at most size - 1 characters of the output
snprintf(text, size) == strlcpy(text, size)

\* strlcat(dst, src, size): dst followed by as much of src as fits
strlcat(dst, src, size) == strlcpy(dst \o src, size)

RECURSIVE Rep(_, _)
Rep(ch, n) == IF n = 0 THEN <<>> ELSE <<ch>> \o Rep(ch, n - 1)

\* "%d" of an octet below 10
Digit(n) == <<"0", "1", "2", "3", "4", "5", "6", "7", "8", "9">>[n + 1]

\* "%d.%d.%d.%d" of the four octets of an IPv4 address
DottedQuad(a) ==
    <<Digit(a[1]), ".", Digit(a[2]), ".", Digit(a[3]), ".", Digit(a[4])>>

\* addresses a client may send: IPv4 octets, or a name of up to 255 octets
WireAddrs(atyp) ==
    IF atyp = 1 THEN { <<1, 0, 0, 9>>, <<9, 0, 0, 1>> }
    ELSE Hosts \cup { Rep("a", 46) \o <<"b">>, Rep("a", 52) \o <<"b">> }

Ports == { <<"8", "0">>, <<"8", "0", "8", "0">> }

S5Version ==
    /\ s5pc = "version"
    /\ \/ /\ S5Bail
          /\ c' = c
       \/ \E n \in 0..MaxMethods :
             /\ c' = n
             /\ s5pc' = "methods"
    /\ UNCHANGED <<found, auths, client, uname, upass, bs, thost, sd, sent,
                   closes>>
    /\ UNCHANGED <<accVars, cfgVars, pxVars, pwVars, startVars, poolVars, addr, port, out>>

\* read the offered methods, select one, reply
S5Methods ==
    /\ s5pc = "methods"
    /\ \/ /\ c > 0
          /\ S5Bail
          /\ UNCHANGED <<auths, found, sent>>
       \/ \E offered \in [1..c -> Methods] :
             LET f == SelectMethod(hlist_count(users_list) = 0, offered) IN
             /\ auths' = offered
             /\ found' = f
             /\ IF f < 0
                THEN /\ sent' = Append(sent, <<5, 255>>)
                     /\ S5Bail
                ELSE /\ sent' = Append(sent, <<5, f>>)
                     /\ s5pc' = IF f # 0 THEN "auth" ELSE "request"
    /\ UNCHANGED <<c, client, uname, upass, bs, thost, sd, closes>>
    /\ UNCHANGED <<accVars, cfgVars, pxVars, pwVars, startVars, poolVars, addr, port, out>>

\* r = read(cd, bs, 2): version and ULEN of the sub-negotiation
S5AuthHead ==
    /\ s5pc = "auth"
    /\ \/ /\ sent' = Append(sent, <<1, 255>>)
          /\ S5Bail
       \/ /\ sent' = sent
          /\ s5pc' = "user"
    /\ UNCHANGED <<found, c, auths, client, uname, upass, bs, thost, sd,
                   closes>>
    /\ UNCHANGED <<accVars, cfgVars, pxVars, pwVars, startVars, poolVars, addr, port, out>>

\* read the user name and PLEN; i = uname[c]; c = i;
S5AuthUser ==
    /\ s5pc = "user"
    /\ \/ /\ S5Bail
          /\ UNCHANGED <<client, uname, c>>
       \/ \E name \in Names, pass \in Pwds, whole \in BOOLEAN :
             /\ client' = [uname |-> name, pass |-> pass, whole |-> whole]
             /\ uname' = name
             /\ c' = CharToInt(PwLen(pass), charSigned)
             /\ s5pc' = "pass"
    /\ UNCHANGED <<found, auths, upass, bs, thost, sd, sent, closes>>
    /\ UNCHANGED <<accVars, cfgVars, pxVars, pwVars, startVars, poolVars, addr, port, out>>

\* upass = zmalloc(c+1); r = read(cd, upass, c); if (r != c) goto bailout;
S5AuthPass ==
    /\ s5pc = "pass"
    /\ \/ \* c >= 0 and the client sent all c octets
          /\ c >= 0
          /\ client.whole
          /\ upass' = client.pass
          /\ s5pc' = "check"
       \/ \* c >= 0 and the read comes back short
          /\ c >= 0
          /\ ~client.whole
          /\ upass' = upass
          /\ S5Bail
       \/ \* c = -1: zmalloc(0), read() of SIZE_MAX octets returns what is
          \* there (r >= 0, so r != c); what it wrote past the empty buffer
          \* may make free() abort
          /\ c = 0 - 1
          /\ upass' = upass
          /\ s5pc' \in IF client.whole THEN {"bailout", "crashed"}
                                     ELSE {"bailout"}
       \/ \* c = -1 and read() fails with -1, so r == c: upass[-1] = 0 and
          \* the buffer holds whatever the heap held
          /\ c = 0 - 1
          /\ \E garbage \in Pwds : upass' = garbage
          /\ s5pc' = "check"
    /\ UNCHANGED <<found, c, auths, client, uname, bs, thost, sd, sent, closes>>
    /\ UNCHANGED <<accVars, cfgVars, pxVars, pwVars, startVars, poolVars, addr, port, out>>

\* check the credentials, send the response, bail out if it failed
S5AuthCheck ==
    /\ s5pc = "check"
    /\ IF CredentialsOk(users_list, uname, upass)
       THEN /\ sent' = Append(sent, <<1, 0>>)
            /\ s5pc' = "request"
       ELSE /\ sent' = Append(sent, <<1, 255>>)
            /\ S5Bail
    /\ UNCHANGED <<found, c, auths, client, uname, upass, bs, thost, sd,
                   closes>>
    /\ UNCHANGED <<accVars, cfgVars, pxVars, pwVars, startVars, poolVars, addr, port, out>>

Commands == {1, 2, 3}
AddressTypes == {1, 3, 4}

\* r = read(cd, bs, 4); refuse all but CONNECT to an IPv4 or a name
S5Request ==
    /\ s5pc = "request"
    /\ \/ /\ S5Bail
          /\ UNCHANGED <<bs, sent>>
       \/ \E cmd \in Commands, atyp \in AddressTypes :
             /\ bs' = <<cmd, atyp>>
             /\ IF cmd # 1 \/ (atyp # 1 /\ atyp # 3)
                THEN /\ sent' = Append(sent, <<5, RefusalCode(cmd, atyp)>>)
                     /\ S5Bail
                ELSE /\ sent' = sent
                     /\ s5pc' = "address"
    /\ UNCHANGED <<found, c, auths, client, uname, upass, thost, sd, closes>>
    /\ UNCHANGED <<accVars, cfgVars, pxVars, pwVars, startVars, poolVars, addr, port, out>>

\* read the destination address (IPv4: 4 octets; name: length and octets),
\* convert it to text in thost, read the port
S5Address ==
    /\ s5pc = "address"
    /\ \/ /\ S5Bail
          /\ UNCHANGED <<thost, addr, port>>
       \/ \E a \in WireAddrs(bs[2]), pt \in Ports :
             /\ addr' = a
             /\ port' = pt
             /\ thost' = IF bs[2] = 1 THEN snprintf(DottedQuad(a), MINIBUF_SIZE)
                                      ELSE strlcpy(a, MINIBUF_SIZE)
             /\ s5pc' = "connect"
    /\ UNCHANGED <<found, c, auths, client, uname, upass, bs, sd, sent, closes>>
    /\ UNCHANGED <<accVars, cfgVars, pxVars, pwVars, startVars, poolVars, out>>

S5ConnectReportsSuccessAlways ==
    /\ s5pc = "connect"
    /\ \E opened \in BOOLEAN, prepared \in BOOLEAN :
          LET direct == noproxy_match(thost)
              hostport == strlcat(strlcat(thost, <<":">>, MINIBUF_SIZE),
                                  port, MINIBUF_SIZE)
              i == IF direct THEN opened ELSE opened /\ prepared
          IN /\ thost' = IF direct THEN thost ELSE hostport
             /\ out' = IF direct
                       THEN [via |-> "direct", host |-> thost, port |-> port,
                             ok |-> i]
                       ELSE [via |-> "proxy", host |-> hostport,
                             port |-> <<>>, ok |-> i]
             /\ sd' = IF ~opened THEN "none"
                      ELSE IF direct THEN "direct" ELSE "proxy"
             /\ sent' = Append(sent, <<5, 0>>)
             /\ s5pc' = "tunnel"
    /\ UNCHANGED <<found, c, auths, client, uname, upass, bs, closes>>
    /\ UNCHANGED <<accVars, cfgVars, pxVars, pwVars, startVars, poolVars, addr, port>>

\* host_connect() for a no-proxy host, else proxy_connect() and
\* prepare_http_connect() for thost:port; then the reply: general failure
\* or success
S5Connect ==
    /\ s5pc = "connect"
    /\ \E opened \in BOOLEAN, prepared \in BOOLEAN :
          LET direct == noproxy_match(thost)
              hostport == strlcat(strlcat(thost, <<":">>, MINIBUF_SIZE),
                                  port, MINIBUF_SIZE)
              i == IF direct THEN opened ELSE opened /\ prepared
          IN /\ thost' = IF direct THEN thost ELSE hostport
             /\ out' = IF direct
                       THEN [via |-> "direct", host |-> thost, port |-> port,
                             ok |-> i]
                       ELSE [via |-> "proxy", host |-> hostport,
                             port |-> <<>>, ok |-> i]
             /\ sd' = IF ~opened THEN "none"
                      ELSE IF direct THEN "direct" ELSE "proxy"
             /\ IF ~i
                THEN /\ sent' = Append(sent, <<5, 1>>)
                     /\ S5Bail
                ELSE /\ sent' = Append(sent, <<5, 0>>)
                     /\ s5pc' = "tunnel"
    /\ UNCHANGED <<found, c, auths, client, uname, upass, bs, closes>>
    /\ UNCHANGED <<accVars, cfgVars, pxVars, pwVars, startVars, poolVars, addr, port>>

\* what tunnel(cd, sd) copies from sd to cd before one side closes: nothing,
\* or octets of the far end
Payload == <<104>>
TunnelRelays == { <<>>, Payload }

\* tunnel(cd, sd) returns when one side closes
S5Tunnel ==
    /\ s5pc = "tunnel"
    /\ \E data \in TunnelRelays :
          sent' = IF data = <<>> THEN sent ELSE Append(sent, data)
    /\ S5Bail
    /\ UNCHANGED <<found, c, auths, client, uname, upass, bs, thost, sd,
                   closes>>
    /\ UNCHANGED <<accVars, cfgVars, pxVars, pwVars, startVars, poolVars, addr, port, out>>

S5BailoutKeepsOutbound ==
    /\ s5pc = "bailout"
    /\ closes' = <<closes[1] + 1, closes[2]>>
    /\ s5pc' = "closed"
    /\ UNCHANGED <<found, c, auths, client, uname, upass, bs, thost, sd, sent>>
    /\ UNCHANGED <<accVars, cfgVars, pxVars, pwVars, startVars, poolVars, addr, port, out>>

S5BailoutExitsProcess ==
    /\ s5pc = "bailout"
    /\ closes' = <<closes[1] + 1, closes[2] + (IF sd # "none" THEN 1 ELSE 0)>>
    /\ s5pc' = "closed"
    /\ pc' = "exited"
    /\ UNCHANGED <<found, c, auths, client, uname, upass, bs, thost, sd, sent>>
    /\ UNCHANGED <<quit, debug, serialize, nsig, rset, attempts, tid, tc, tj,
                   conns, threads_list, threads_mtx, t>>
    /\ UNCHANGED <<cfgVars, pxVars, pwVars, startVars, poolVars, addr, port,
                   out>>

\* bailout: if (sd >= 0) close(sd); close(cd); return NULL;
S5Bailout ==
    /\ s5pc = "bailout"
    /\ closes' = <<closes[1] + 1, closes[2] + (IF sd # "none" THEN 1 ELSE 0)>>
    /\ s5pc' = "closed"
    /\ UNCHANGED <<found, c, auths, client, uname, upass, bs, thost, sd, sent>>
    /\ UNCHANGED <<accVars, cfgVars, pxVars, pwVars, startVars, poolVars, addr, port, out>>

InitSocks ==
    /\ AccStart
    /\ debug = FALSE
    /\ serialize = FALSE
    /\ users_list \in UserTables
    /\ noproxy_list \in NoProxyLists
    /\ charSigned \in BOOLEAN
    /\ pacBuild = FALSE
    /\ pacparser_initialized = FALSE
    /\ S5Start
    /\ PxStart
    /\ PwStart
    /\ StartDone
    /\ PoolStart

NextSocks ==
    \/ S5Version
    \/ S5Methods
    \/ S5AuthHead
    \/ S5AuthUser
    \/ S5AuthPass
    \/ S5AuthCheck
    \/ S5Request
    \/ S5Address
    \/ S5Connect
    \/ S5Tunnel
    \/ S5Bailout

SpecSocks == InitSocks /\ [][NextSocks]_vars

(***************************************************************************)
(* proxy_thread(): one client connection.  A request is its host name, its *)
(* Proxy-Connection: keep-alive header and where the record came from.     *)
(* A forwarder returns NULL, the close sentinel -1, the PAC sentinel -2,   *)
(* or a new request record.                                                *)
(***************************************************************************)
MaxRequests == 2
MaxRedispatch == 1

Requests(origin) ==
    [hostname : Hosts, ka : BOOLEAN, origin : {origin}]

\* the proxy list pac_create_list() makes of pacparser_find_proxy()'s answer
PacResult(req) == <<"pac", req.hostname>>

ChooseForwarderPacFirst(hostname) ==
    IF pacBuild /\ pacparser_initialized THEN "pac"
    ELSE IF noproxy_match(hostname) THEN "direct"
    ELSE "forward"

\* if (noproxy_match(...)) direct_request
\* else if (pacparser_initialized) pac_forward_request else forward_request
ChooseForwarder(hostname) ==
    IF noproxy_match(hostname) THEN "direct"
    ELSE IF pacBuild /\ pacparser_initialized THEN "pac"
    ELSE "forward"

\* ret is neither NULL nor -1 nor -2
IsRecord(r) == r.code = "RECORD"

\* top of the outer loop: read a request, look it up in the PAC file once
PxRecv ==
    /\ pxpc = "recv"
    /\ ret' = RetNull
    /\ keep_alive' = FALSE
    /\ \/ \* headers_recv() fails: break
          /\ request' = NoRequest
          /\ pxpc' = "exit"
          /\ UNCHANGED <<pac_found, pac_list, nreq>>
       \/ \E r \in Requests("client") :
             /\ nreq < MaxRequests
             /\ nreq' = nreq + 1
             /\ request' = r
             /\ IF pacBuild /\ ~pac_found
                THEN pac_found' = TRUE /\ pac_list' = PacResult(r)
                ELSE UNCHANGED <<pac_found, pac_list>>
             /\ pxpc' = "dispatch"
    /\ UNCHANGED <<call, nredisp, pxclosed>>
    /\ UNCHANGED <<accVars, cfgVars, s5Vars, pwVars, startVars, poolVars>>

\* what the forwarder called for a request may return
Returns(fwd) ==
    {[code |-> k, rec |-> NoRequest] :
        k \in {"NULL", "CLOSE"} \cup (IF pacBuild THEN {"PACFAIL"} ELSE {})}
    \cup (IF nredisp < MaxRedispatch
          THEN {[code |-> "RECORD", rec |-> r] : r \in Requests("forwarder")}
          ELSE {})

PxDispatchServesOldRecord ==
    /\ pxpc = "dispatch"
    /\ LET req == request
           pl == pac_list
           fwd == ChooseForwarder(req.hostname)
       IN  /\ request' = req
           /\ pac_list' = pl
           /\ keep_alive' = req.ka
           /\ call' = [fwd |-> fwd, request |-> req,
                       list |-> IF fwd = "pac" THEN pl ELSE <<>>]
           /\ \E r \in Returns(fwd) :
                 /\ ret' = r
                 /\ nredisp' = nredisp + (IF IsRecord(r) THEN 1 ELSE 0)
                 /\ pxpc' = IF IsRecord(r) THEN "dispatch" ELSE "outer"
    /\ UNCHANGED <<pac_found, nreq, pxclosed>>
    /\ UNCHANGED <<accVars, cfgVars, s5Vars, pwVars, startVars, poolVars>>

\* one round of the inner loop
PxDispatch ==
    /\ pxpc = "dispatch"
    /\ LET req == IF IsRecord(ret) THEN ret.rec ELSE request
           pl == IF IsRecord(ret) /\ pacBuild THEN PacResult(req)
                 ELSE pac_list
           fwd == ChooseForwarder(req.hostname)
       IN  /\ request' = req
           /\ pac_list' = pl
           /\ keep_alive' = req.ka
           /\ call' = [fwd |-> fwd, request |-> req,
                       list |-> IF fwd = "pac" THEN pl ELSE <<>>]
           /\ \E r \in Returns(fwd) :
                 /\ ret' = r
                 /\ nredisp' = nredisp + (IF IsRecord(r) THEN 1 ELSE 0)
                 /\ pxpc' = IF IsRecord(r) THEN "dispatch" ELSE "outer"
    /\ UNCHANGED <<pac_found, nreq, pxclosed>>
    /\ UNCHANGED <<accVars, cfgVars, s5Vars, pwVars, startVars, poolVars>>

PxLoopIgnoresSerialize ==
    /\ pxpc = "outer"
    /\ request' = NoRequest
    /\ pxpc' = IF keep_alive /\ ret.code \notin {"CLOSE", "PACFAIL"}
               THEN "recv" ELSE "exit"
    /\ UNCHANGED <<ret, keep_alive, pac_found, pac_list, call, nreq, nredisp,
                   pxclosed>>
    /\ UNCHANGED <<accVars, cfgVars, s5Vars, pwVars, startVars, poolVars>>

\* while (keep_alive && ret != -1 && ret != -2 && !serialize)
PxLoop ==
    /\ pxpc = "outer"
    /\ request' = NoRequest
    /\ pxpc' = IF keep_alive /\ ret.code \notin {"CLOSE", "PACFAIL"}
                  /\ ~serialize
               THEN "recv" ELSE "exit"
    /\ UNCHANGED <<ret, keep_alive, pac_found, pac_list, call, nreq, nredisp,
                   pxclosed>>
    /\ UNCHANGED <<accVars, cfgVars, s5Vars, pwVars, startVars, poolVars>>

\* plist_free(pac_list); free(thread_data); close(cd);
PxExit ==
    /\ pxpc = "exit"
    /\ pac_list' = <<>>
    /\ pxclosed' = pxclosed + 1
    /\ pxpc' = "done"
    /\ UNCHANGED <<request, ret, keep_alive, pac_found, call, nreq, nredisp>>
    /\ UNCHANGED <<accVars, cfgVars, s5Vars, pwVars, startVars, poolVars>>

InitProxy ==
    /\ AccStart
    /\ debug = FALSE
    /\ serialize \in BOOLEAN
    /\ users_list = <<>>
    /\ noproxy_list \in NoProxyLists
    /\ charSigned = TRUE
    /\ pacBuild \in BOOLEAN
    /\ pacparser_initialized \in BOOLEAN
    /\ pacparser_initialized => pacBuild
    /\ S5Start
    /\ PxStart
    /\ PwStart
    /\ StartDone
    /\ PoolStart

NextProxy ==
    \/ PxRecv
    \/ PxDispatch
    \/ PxLoop
    \/ PxExit

SpecProxy == InitProxy /\ [][NextProxy]_vars

(***************************************************************************)
(* Proxy workers side by side: the locks a proxy_thread() takes and the    *)
(* places where it works on its sockets.  Each worker w has its locals in  *)
(* pw[w]; pw[w].at is where it is.  The evaluator keeps its answer in a    *)
(* string of its own, which pacparser_find_proxy() returns a pointer to.   *)
(***************************************************************************)
MaxProxyWorkers == 2
MaxPwRounds == 2

\* the host the client of worker w asks for
PwHost(w) == <<"h", w>>

\* the locals of a worker: request->hostname, pac_found, pac_list, and the
\* number of requests it has dispatched (bounds the model)
PwNew(routine) ==
    [routine |-> routine,
     at |-> IF routine = "proxy_thread" THEN "recv" ELSE "tunnel",
     req |-> <<>>, from |-> "none", pac_found |-> FALSE, pac_list |-> <<>>,
     n |-> 0]

\* the worker leaves its loops: the request is freed
PwLeave ==
    [at |-> "exit", req |-> <<>>, from |-> "none", n |-> 0]

PwSet(w, fields) ==
    pw' = [pw EXCEPT ![w] = [f \in DOMAIN pw[w] |->
                               IF f \in DOMAIN fields THEN fields[f]
                               ELSE pw[w][f]]]

\* the other variables of this part of the model
PwKeep(changed) ==
    /\ "pacparser_mtx" \in changed \/ pacparser_mtx' = pacparser_mtx
    /\ "connection_mtx" \in changed \/ connection_mtx' = connection_mtx
    /\ "pacp_str" \in changed \/ pacp_str' = pacp_str
    /\ "threads" \in changed \/ UNCHANGED <<threads_list, threads_mtx>>
    /\ UNCHANGED <<pac_engine, cfgVars, s5Vars, pxVars, startVars, poolVars>>
    /\ UNCHANGED <<quit, debug, serialize, nsig, pc, rset, attempts, tid, tc,
                   tj, conns, t>>

\* top of the outer loop: headers_recv(); the first request of a connection
\* is looked up in the PAC file
PwRecv(w) ==
    /\ pw[w].at = "recv"
    /\ \/ PwSet(w, PwLeave)
       \/ /\ pw[w].n < MaxPwRounds
          /\ PwSet(w, [at |-> IF pacBuild /\ ~pw[w].pac_found
                              THEN "lock" ELSE "dispatch",
                       req |-> PwHost(w), from |-> "client",
                       pac_found |-> pacBuild, n |-> pw[w].n + 1])
    /\ PwKeep({})

PwPacLockNoMutex(w) ==
    /\ pw[w].at = "lock"
    /\ PwSet(w, [at |-> "incall"])
    /\ PwKeep({})

\* pthread_mutex_lock(&pacparser_mtx); pacparser_find_proxy() is entered
PwPacLock(w) ==
    /\ pw[w].at = "lock"
    /\ pacparser_mtx = Free
    /\ pacparser_mtx' = Owner(w)
    /\ PwSet(w, [at |-> "incall"])
    /\ PwKeep({"pacparser_mtx"})

\* the answer of the evaluator for a host, NULL when it is not running
PacAnswer(engine, h) == IF engine = "up" THEN <<"pac">> \o h ELSE <<>>

\* pacparser_find_proxy() returns: the answer is in the shared string
PwPacReturn(w) ==
    /\ pw[w].at = "incall"
    /\ pacp_str' = PacAnswer(pac_engine, pw[w].req)
    /\ PwSet(w, [at |-> "unlock"])
    /\ PwKeep({"pacp_str"})

PwPacUnlockKeepsMutex(w) ==
    /\ pw[w].at = "unlock"
    /\ PwSet(w, [at |-> "copy"])
    /\ PwKeep({})

\* pthread_mutex_unlock(&pacparser_mtx)
PwPacUnlock(w) ==
    /\ pw[w].at = "unlock"
    /\ pacparser_mtx' = Free
    /\ PwSet(w, [at |-> "copy"])
    /\ PwKeep({"pacparser_mtx"})

\* pac_create_list(): the list is made of a copy of the shared string
PwPacCopy(w) ==
    /\ pw[w].at = "copy"
    /\ PwSet(w, [at |-> "dispatch", pac_list |-> pacp_str])
    /\ PwKeep({})

\* a forwarder is called; it looks for a cached upstream connection under
\* the pool lock
PwPoolLock(w) ==
    /\ pw[w].at = "dispatch"
    /\ connection_mtx = Free
    /\ connection_mtx' = Owner(w)
    /\ PwSet(w, [at |-> "pooled"])
    /\ PwKeep({"connection_mtx"})

PwPoolUnlock(w) ==
    /\ pw[w].at = "pooled"
    /\ connection_mtx' = Free
    /\ PwSet(w, [at |-> "io"])
    /\ PwKeep({"connection_mtx"})

\* the forwarder talks to client and server and returns; a new request
\* record is dispatched after a PAC lookup of its own; otherwise the outer
\* loop goes on while (keep_alive && ret != -1 && ret != -2 && !serialize)
PwForward(w) ==
    /\ pw[w].at = "io"
    /\ \/ /\ pw[w].n < MaxPwRounds
          /\ PwSet(w, [at |-> IF pacBuild THEN "lock" ELSE "dispatch",
                       from |-> "forwarder", n |-> pw[w].n + 1])
       \/ \E r \in {"NULL", "CLOSE"} \cup (IF pacBuild THEN {"PACFAIL"} ELSE {}),
             k \in BOOLEAN :
             IF k /\ r \notin {"CLOSE", "PACFAIL"} /\ ~serialize
             THEN PwSet(w, [at |-> "recv", req |-> <<>>, from |-> "none"])
             ELSE PwSet(w, PwLeave)
    /\ PwKeep({})

\* tunnel_thread(): direct_tunnel() or forward_tunnel() moves the bytes
PwTunnel(w) ==
    /\ pw[w].at = "tunnel"
    /\ PwSet(w, PwLeave)
    /\ PwKeep({})

\* pthread_mutex_lock(&threads_mtx)
PwExitLock(w) ==
    /\ pw[w].at = "exit"
    /\ threads_mtx = Free
    /\ threads_mtx' = Owner(w)
    /\ threads_list' = threads_list
    /\ PwSet(w, [at |-> "enqueue"])
    /\ PwKeep({"threads"})

\* plist_add(threads_list, ...); pthread_mutex_unlock(&threads_mtx)
PwEnqueue(w) ==
    /\ pw[w].at = "enqueue"
    /\ threads_list' = Append(threads_list, w)
    /\ threads_mtx' = Free
    /\ PwSet(w, [at |-> IF pw[w].routine = "proxy_thread" THEN "close"
                        ELSE "done"])
    /\ PwKeep({"threads"})

\* proxy_thread(): plist_free(pac_list); free(thread_data); close(cd);
PwClose(w) ==
    /\ pw[w].at = "close"
    /\ PwSet(w, [at |-> "done", pac_list |-> <<>>])
    /\ PwKeep({})

InitProxies ==
    /\ AccStart
    /\ debug = FALSE
    /\ serialize = FALSE
    /\ users_list = <<>>
    /\ noproxy_list = <<>>
    /\ charSigned = TRUE
    /\ pacBuild \in BOOLEAN
    /\ pacparser_initialized \in BOOLEAN
    /\ pacparser_initialized => pacBuild
    /\ S5Start
    /\ PxStart
    /\ pacparser_mtx = Free
    /\ connection_mtx = Free
    /\ pac_engine = IF pacparser_initialized THEN "up" ELSE "off"
    /\ pacp_str = <<>>
    /\ pw \in [1..MaxProxyWorkers ->
                 {PwNew("proxy_thread"), PwNew("tunnel_thread")}]
    /\ StartDone
    /\ PoolStart

NextProxies ==
    \E w \in 1..MaxProxyWorkers :
       \/ PwRecv(w)
       \/ PwPacLock(w)
       \/ PwPacReturn(w)
       \/ PwPacUnlock(w)
       \/ PwPacCopy(w)
       \/ PwPoolLock(w)
       \/ PwPoolUnlock(w)
       \/ PwForward(w)
       \/ PwTunnel(w)
       \/ PwExitLock(w)
       \/ PwEnqueue(w)
       \/ PwClose(w)

SpecProxies == InitProxies /\ [][NextProxies]_vars

\* the same workers while shutdown signals arrive
NextProxiesSignalled ==
    \/ NextProxies
    \/ Signal

SpecProxiesSignalled == InitProxies /\ [][NextProxiesSignalled]_vars

(***************************************************************************)
(* One worker thread: the routine pthread_create() was given is            *)
(* proxy_thread() or socks5_thread(), and the thread runs that one only.   *)
(***************************************************************************)
WorkerStart(i, cfg) ==
    /\ quit = 0
    /\ nsig = 0
    /\ rset = {}
    /\ attempts = 1
    /\ tid = 0
    /\ tc = 0
    /\ tj = 0
    /\ threads_list = <<>>
    /\ threads_mtx = Free
    /\ t = <<>>
    /\ debug = FALSE
    /\ DispatchRoutine(i) = cfg
    /\ conns = << NewConn(i, IF DispatchInline(i, serialize)
                             THEN "inline" ELSE "thread", "serving") >>
    /\ pc = IF DispatchInline(i, serialize) THEN "inline" ELSE "count"
    /\ S5Start
    /\ PxStart
    /\ PwStart
    /\ StartDone
    /\ PoolStart

InitWorker ==
    \E i \in proxyd_list \cup socksd_list :
       \/ /\ serialize = FALSE
          /\ users_list \in UserTables
          /\ noproxy_list \in NoProxyLists
          /\ charSigned \in BOOLEAN
          /\ pacBuild = FALSE
          /\ pacparser_initialized = FALSE
          /\ WorkerStart(i, "socks5_thread")
       \/ /\ serialize \in BOOLEAN
          /\ users_list = <<>>
          /\ noproxy_list \in NoProxyLists
          /\ charSigned = TRUE
          /\ pacBuild \in BOOLEAN
          /\ pacparser_initialized \in BOOLEAN
          /\ pacparser_initialized => pacBuild
          /\ WorkerStart(i, "proxy_thread")

\* the routine of the thread
Routine == conns[1].routine

NextWorker ==
    \/ Routine = "socks5_thread" /\ NextSocks
    \/ Routine = "proxy_thread" /\ NextProxy

SpecWorker == InitWorker /\ [][NextWorker]_vars

Next == Step(MaxConn)

Spec == Init /\ [][Next]_vars

\* the same program with the bound of the liveness checks
NextLive == Step(MaxLiveConn)

(***************************************************************************)
(* Scheduling.  The acceptor and the housekeeping of the workers (locking, *)
(* enqueueing, returning) always make progress;                            *)
(* when a worker is done serving depends on its peers.  SpecLive assumes   *)
(* nothing about the peers, SpecDrain assumes that every running worker    *)
(* eventually finishes.  A thread that waits for a mutex which is freed    *)
(* again and again gets it in the end (strong fairness of the lock         *)
(* acquisitions).                                                          *)
(***************************************************************************)
SpecLive ==
    /\ Init /\ [][NextLive]_vars
    /\ WF_vars(MainStep(MaxLiveConn))
    /\ SF_vars(ReapLock)
    /\ \A w \in 1..MaxLiveConn : WF_vars(WorkerHousekeeping(w))
    /\ \A w \in 1..MaxLiveConn : SF_vars(WorkerLock(w))

SpecDrain ==
    /\ SpecLive
    /\ \A w \in 1..MaxLiveConn : SF_vars(WorkerFinish(w))

\* connection attempts in the specification of the join loop
MaxJoinConn == 2

NextJoin == Step(MaxJoinConn)

\* the scheduling of SpecLive with two connections: a worker can finish and
\* enqueue itself while the acceptor is busy with another connection
SpecJoin ==
    /\ Init /\ [][NextJoin]_vars
    /\ WF_vars(MainStep(MaxJoinConn))
    /\ SF_vars(ReapLock)
    /\ \A w \in 1..MaxJoinConn : WF_vars(WorkerHousekeeping(w))
    /\ \A w \in 1..MaxJoinConn : SF_vars(WorkerLock(w))

(***************************************************************************)
(* The start-up part of main(): the command line, the configuration file,  *)
(* the password prompt, the hashes, and the checks before the acceptor     *)
(* loop.                                                                   *)
(***************************************************************************)
\* options on the command line
MaxArgs == 2

\* strlen(buf): the bytes before the first NUL
strlen(buf) ==
    IF \E i \in 1..Len(buf) : buf[i] = NUL
    THEN (CHOOSE i \in 1..Len(buf) :
             /\ buf[i] = NUL
             /\ \A j \in 1..(i - 1) : buf[j] # NUL) - 1
    ELSE Len(buf)

\* what a copy of string s into a buffer writes: its characters and one NUL
Store(buf, s) ==
    [i \in 1..Len(buf) |->
        IF i <= Len(s) THEN s[i]
        ELSE IF i = Len(s) + 1 THEN NUL
        ELSE buf[i]]

\* memset(buf, 0, n)
memset(buf, n) == [i \in 1..Len(buf) |-> IF i <= n THEN NUL ELSE buf[i]]

\* fgets(buf, size, stdin) of one typed line, and the removal of its "\n"
fgets(buf, size, line) == Store(buf, strlcpy(line \o <<"\n">>, size))

StripNewline(buf) ==
    LET i == strlen(buf)
    IN IF i >= 1 /\ buf[i] = "\n"
       THEN [k \in 1..Len(buf) |->
               IF k = i \/ (k = i - 1 /\ buf[k] = "\r") THEN NUL ELSE buf[k]]
       ELSE buf

\* the lines a user types at the password prompt
TypedLines == { <<>>, Short }

\* so_resolv_wildcard(): loopback, or every interface in gateway mode
so_resolv_wildcard(lport, gw) == IF gw THEN "any" ELSE "loopback"

\* listen_add() and tunnel_add(): the listener handed to so_listen()
listen_add(list, spec, gw) ==
    [list |-> list, port |-> spec[2],
     iface |-> IF spec[1] # NoHost THEN "host"
               ELSE so_resolv_wildcard(spec[2], gw)]

\* so_listen(): the listener joins its list when bind() and listen() succeed
so_listen(l) == IF l.port = BusyPort THEN {} ELSE {l}

ListOf(o) ==
    IF o = "l" THEN "proxyd_list"
    ELSE IF o = "O" THEN "socksd_list" ELSE "tunneld_list"

\* CFG_DEFAULT(cf, opt, var, size): the value of the file unless var is set
CFG_DEFAULT(value, var, size) ==
    IF var = <<>> THEN strlcpy(value, size) ELSE var

\* one option of the getopt() loop
StartGetopt ==
    /\ spc = "getopt"
    /\ argv # <<>>
    /\ LET o == Head(argv).opt
           optarg == Head(argv).optarg
       IN /\ argv' = Tail(argv)
          /\ gateway' = (gateway \/ o = "g")
          /\ ntlmbasic' = (ntlmbasic \/ o = "B")
          /\ interactivepwd' = (interactivepwd \/ o = "I")
          /\ interactivehash' = (interactivehash \/ o = "H")
          /\ magic_detect' = (magic_detect \/ o = "M")
          /\ cauth' = IF o = "a" THEN strlcpy(optarg, MINIBUF_SIZE) ELSE cauth
          /\ cpassword' = IF o = "p"
                          THEN Store(cpassword, strlcpy(optarg, MINIBUF_SIZE))
                          ELSE cpassword
          /\ supplied' = IF o = "p" THEN Append(supplied, optarg)
                         ELSE supplied
          /\ bound' = IF o \in {"l", "O", "L"}
                      THEN bound
                           \cup so_listen(listen_add(ListOf(o), optarg, gateway))
                      ELSE bound
          /\ pac' = (pac \/ (pacBuild /\ o = "x"))
    /\ UNCHANGED <<spc, cf, krb, cpassntlm2, cpassnt, cpasslm, g_creds,
                   parent_list, freed>>
    /\ UNCHANGED <<accVars, cfgVars, s5Vars, pxVars, pwVars, poolVars>>

\* if (cf): the whole of the configuration file, then config_close(cf)
StartConfig ==
    /\ spc = "getopt"
    /\ argv = <<>>
    /\ spc' = "checks"
    /\ cf' = NoConfig
    /\ LET gw == gateway \/ cf.Gateway
       IN /\ gateway' = gw
          /\ bound' = bound
                \cup UNION { so_listen(listen_add("tunneld_list", s, gw)) :
                                s \in cf.Tunnel }
                \cup UNION { so_listen(listen_add("proxyd_list", s, gw)) :
                                s \in cf.Listen }
                \cup UNION { so_listen(listen_add("socksd_list", s, gw)) :
                                s \in cf.SOCKS5Proxy }
    /\ pac' = (pac \/ (pacBuild /\ cf.Pac))
    /\ ntlmbasic' = (ntlmbasic \/ cf.NTLMToBasic)
    /\ parent_list' = parent_list \o cf.Proxy
    /\ cauth' = CFG_DEFAULT(cf.Auth, cauth, MINIBUF_SIZE)
    /\ cpassword' = IF strlen(cpassword) = 0 /\ cf.Password # <<>>
                    THEN Store(cpassword, strlcpy(cf.Password, MINIBUF_SIZE))
                    ELSE cpassword
    /\ supplied' = IF strlen(cpassword) = 0 /\ cf.Password # <<>>
                   THEN Append(supplied, cf.Password) ELSE supplied
    /\ cpassntlm2' = CFG_DEFAULT(cf.PassNTLMv2, cpassntlm2, MINIBUF_SIZE)
    /\ cpassnt' = CFG_DEFAULT(cf.PassNT, cpassnt, MINIBUF_SIZE)
    /\ cpasslm' = CFG_DEFAULT(cf.PassLM, cpasslm, MINIBUF_SIZE)
    /\ UNCHANGED <<argv, krb, interactivepwd, interactivehash, magic_detect,
                   g_creds, freed>>
    /\ UNCHANGED <<accVars, cfgVars, s5Vars, pxVars, pwVars, poolVars>>

\* the hash combination a name of the Auth setting selects; 0 - 1: unknown
AuthCombination(name) ==
    IF name = <<"n", "t", "l", "m">> THEN <<1, 1, 0>>
    ELSE IF name = <<"n", "t">> THEN <<1, 0, 0>>
    ELSE IF name = <<"l", "m">> THEN <<0, 1, 0>>
    ELSE IF name = <<"n", "t", "l", "m", "v", "2">> THEN <<0, 0, 1>>
    ELSE IF name = <<"n", "t", "l", "m", "2", "s", "r">> THEN <<2, 0, 0>>
    ELSE <<0 - 1, 0 - 1, 0 - 1>>

StartChecksIgnoresListeners ==
    /\ spc = "checks"
    /\ \E readable \in (IF pacBuild /\ pac THEN BOOLEAN ELSE {TRUE}) :
       LET noParent == /\ ~interactivehash
                       /\ parent_list = <<>>
                       /\ ~(pacBuild /\ pac)
           noPort == FALSE
           comb == AuthCombination(cauth)
       IN /\ pacparser_initialized' = (pacBuild /\ pac /\ readable)
          /\ IF \/ ~readable
                \/ noParent
                \/ noPort
                \/ (cauth # <<>> /\ comb[1] < 0)
             THEN /\ spc' = "exit1"
                  /\ g_creds' = g_creds
             ELSE /\ spc' = "prompt"
                  /\ g_creds' = IF cauth = <<>> THEN g_creds
                                ELSE [g_creds EXCEPT !.hashnt = comb[1],
                                                     !.hashlm = comb[2],
                                                     !.hashntlm2 = comb[3]]
    /\ UNCHANGED <<argv, cf, krb, gateway, ntlmbasic, interactivepwd,
                   interactivehash, magic_detect, cpassword, cpassntlm2,
                   cpassnt, cpasslm, cauth, parent_list, bound, freed,
                   supplied, pac>>
    /\ UNCHANGED <<users_list, noproxy_list, charSigned, pacBuild>>
    /\ UNCHANGED <<accVars, s5Vars, pxVars, pwVars, poolVars>>

\* the start of the PAC engine, the two croak() calls and the parsing of the
\* hash combination; fopen(pac_file) succeeds or fails
StartChecks ==
    /\ spc = "checks"
    /\ \E readable \in (IF pacBuild /\ pac THEN BOOLEAN ELSE {TRUE}) :
       LET noParent == /\ ~interactivehash
                       /\ parent_list = <<>>
                       /\ ~(pacBuild /\ pac)
           noPort == /\ ~interactivehash
                     /\ ~magic_detect
                     /\ ~ \E b \in bound : b.list = "proxyd_list"
           comb == AuthCombination(cauth)
       IN /\ pacparser_initialized' = (pacBuild /\ pac /\ readable)
          /\ IF \/ ~readable
                \/ noParent
                \/ noPort
                \/ (cauth # <<>> /\ comb[1] < 0)
             THEN /\ spc' = "exit1"
                  /\ g_creds' = g_creds
             ELSE /\ spc' = "prompt"
                  /\ g_creds' = IF cauth = <<>> THEN g_creds
                                ELSE [g_creds EXCEPT !.hashnt = comb[1],
                                                     !.hashlm = comb[2],
                                                     !.hashntlm2 = comb[3]]
    /\ UNCHANGED <<argv, cf, krb, gateway, ntlmbasic, interactivepwd,
                   interactivehash, magic_detect, cpassword, cpassntlm2,
                   cpassnt, cpasslm, cauth, parent_list, bound, freed,
                   supplied, pac>>
    /\ UNCHANGED <<users_list, noproxy_list, charSigned, pacBuild>>
    /\ UNCHANGED <<accVars, s5Vars, pxVars, pwVars, poolVars>>

\* "Last chance to get password from the user"
StartPrompt ==
    /\ spc = "prompt"
    /\ spc' = "hash"
    /\ IF interactivehash \/ magic_detect \/ (interactivepwd /\ ~ntlmbasic)
       THEN \E line \in TypedLines :
               /\ cpassword' =
                     StripNewline(fgets(cpassword, MINIBUF_SIZE, line))
               /\ supplied' = IF line # <<>> THEN Append(supplied, line)
                              ELSE supplied
       ELSE UNCHANGED <<cpassword, supplied>>
    /\ UNCHANGED <<argv, cf, krb, gateway, ntlmbasic, interactivepwd,
                   interactivehash, magic_detect, cpassntlm2, cpassnt,
                   cpasslm, cauth, g_creds, parent_list, bound, freed>>
    /\ UNCHANGED pac
    /\ UNCHANGED <<accVars, cfgVars, s5Vars, pxVars, pwVars, poolVars>>

\* scanmem(text, 8): the bytes of a hexadecimal text, or NULL
NoMem == <<"NULL">>
scanmem(text) == IF text = HexBad THEN NoMem ELSE FromHex(text)

\* the C string in a buffer
CStr(buf) == SubSeq(buf, 1, strlen(buf))

\* a free() of a buffer that holds a secret, and whether it was zeroed first
Freed(buf, zeroed) == [buf |-> buf, zeroed |-> zeroed]

\* the hashes: from PassNTLMv2, PassNT and PassLM, or from the password
StartHashes ==
    /\ spc = "hash"
    /\ IF strlen(cpassword) = 0
       THEN LET bad2 == cpassntlm2 # <<>> /\ scanmem(cpassntlm2) = NoMem
                badnt == cpassnt # <<>> /\ scanmem(cpassnt) = NoMem
                badlm == cpasslm # <<>> /\ scanmem(cpasslm) = NoMem
                g2 == IF cpassntlm2 # <<>> /\ ~bad2
                      THEN [g_creds EXCEPT !.passntlm2 = scanmem(cpassntlm2)]
                      ELSE g_creds
                gnt == IF cpassnt # <<>> /\ ~bad2 /\ ~badnt
                       THEN [g2 EXCEPT !.passnt = scanmem(cpassnt)]
                       ELSE g2
                glm == IF cpasslm # <<>> /\ ~bad2 /\ ~badnt /\ ~badlm
                       THEN [gnt EXCEPT !.passlm = scanmem(cpasslm)]
                       ELSE gnt
            IN /\ spc' = IF bad2 \/ badnt \/ badlm THEN "exit1" ELSE "free"
               /\ g_creds' = [glm EXCEPT !.haskrb =
                                 IF bad2 \/ badnt \/ badlm THEN @ ELSE krb]
               /\ freed' = IF glm # g_creds
                           THEN freed \cup {Freed("tmp", FALSE)}
                           ELSE freed
               /\ cpassword' = cpassword
       ELSE LET all == magic_detect \/ interactivehash
                pass == CStr(cpassword)
                gnt == IF g_creds.hashnt # 0 \/ all
                       THEN [g_creds EXCEPT !.passnt = HashOf("NT", pass)]
                       ELSE g_creds
                glm == IF g_creds.hashlm # 0 \/ all
                       THEN [gnt EXCEPT !.passlm = HashOf("LM", pass)]
                       ELSE gnt
                g2 == IF g_creds.hashntlm2 # 0 \/ all
                      THEN [glm EXCEPT !.passntlm2 = HashOf("NTLMv2", pass)]
                      ELSE glm
            IN /\ spc' = "free"
               /\ g_creds' = [g2 EXCEPT !.haskrb = krb]
               /\ freed' = IF g2 # g_creds
                           THEN freed \cup {Freed("tmp", FALSE)}
                           ELSE freed
               /\ cpassword' = memset(cpassword, strlen(cpassword))
    /\ UNCHANGED <<argv, cf, krb, gateway, ntlmbasic, interactivepwd,
                   interactivehash, magic_detect, cpassntlm2, cpassnt,
                   cpasslm, cauth, parent_list, bound, supplied>>
    /\ UNCHANGED pac
    /\ UNCHANGED <<accVars, cfgVars, s5Vars, pxVars, pwVars, poolVars>>

\* whether every byte of a buffer is zero
AllZero(buf) == \A i \in 1..Len(buf) : buf[i] = NUL

\* free(cpassword); free(cpassntlm2); free(cpassnt); free(cpasslm)
StartFree ==
    /\ spc = "free"
    /\ spc' = "verify"
    /\ freed' = freed
          \cup (IF AllZero(cpassword) /\ supplied = <<>> THEN {}
                ELSE {Freed("cpassword", AllZero(cpassword))})
          \cup (IF cpassntlm2 = <<>> THEN {} ELSE {Freed("cpassntlm2", FALSE)})
          \cup (IF cpassnt = <<>> THEN {} ELSE {Freed("cpassnt", FALSE)})
          \cup (IF cpasslm = <<>> THEN {} ELSE {Freed("cpasslm", FALSE)})
    /\ UNCHANGED <<argv, cf, krb, gateway, ntlmbasic, interactivepwd,
                   interactivehash, magic_detect, cpassword, cpassntlm2,
                   cpassnt, cpasslm, cauth, g_creds, parent_list, bound,
                   supplied>>
    /\ UNCHANGED pac
    /\ UNCHANGED <<accVars, cfgVars, s5Vars, pxVars, pwVars, poolVars>>

\* is_memory_all_zero() of a stored hash
is_memory_all_zero(hash) == hash = ZeroHash

\* the condition of "If we're going to need a password, check we really
\* have it": a hash the policy enables is all zero
PasswordMissingIgnoresLM(basic, g) ==
    /\ ~basic
    /\ ~g.haskrb
    /\ \/ g.hashnt # 0 /\ is_memory_all_zero(g.passnt)
       \/ g.hashntlm2 # 0 /\ is_memory_all_zero(g.passntlm2)

PasswordMissing(basic, g) ==
    /\ ~basic
    /\ ~g.haskrb
    /\ \/ g.hashnt # 0 /\ is_memory_all_zero(g.passnt)
       \/ g.hashlm # 0 /\ is_memory_all_zero(g.passlm)
       \/ g.hashntlm2 # 0 /\ is_memory_all_zero(g.passntlm2)

\* magic_detect and interactivehash leave through bailout; otherwise the
\* password check decides between myexit(1) and the acceptor loop
StartVerify ==
    /\ spc = "verify"
    /\ spc' = IF magic_detect \/ interactivehash THEN "exit0"
              ELSE IF PasswordMissing(ntlmbasic, g_creds) THEN "exit1"
              ELSE "loop"
    /\ UNCHANGED <<argv, cf, krb, gateway, ntlmbasic, interactivepwd,
                   interactivehash, magic_detect, cpassword, cpassntlm2,
                   cpassnt, cpasslm, cauth, g_creds, parent_list, bound,
                   freed, supplied>>
    /\ UNCHANGED pac
    /\ UNCHANGED <<accVars, cfgVars, s5Vars, pxVars, pwVars, poolVars>>

\* the command lines of the model: up to MaxArgs options
CommandLines ==
    UNION { [1..n -> Options] : n \in 0..MaxArgs }

InitStart ==
    /\ AccStart
    /\ debug = FALSE
    /\ serialize = FALSE
    /\ users_list = <<>>
    /\ noproxy_list = <<>>
    /\ charSigned = TRUE
    /\ pacBuild \in BOOLEAN
    /\ pacparser_initialized = FALSE
    /\ S5Start
    /\ PxStart
    /\ PwStart
    /\ spc = "getopt"
    /\ argv \in CommandLines
    /\ cf \in ConfigFiles
    /\ krb \in BOOLEAN
    /\ gateway = FALSE
    /\ ntlmbasic = FALSE
    /\ interactivepwd = FALSE
    /\ interactivehash = FALSE
    /\ magic_detect = FALSE
    /\ cpassword = zmalloc(MINIBUF_SIZE)
    /\ cpassntlm2 = <<>>
    /\ cpassnt = <<>>
    /\ cpasslm = <<>>
    /\ cauth = <<>>
    /\ g_creds = new_auth
    /\ parent_list = <<>>
    /\ bound = {}
    /\ freed = {}
    /\ supplied = <<>>
    /\ pac = FALSE
    /\ PoolStart

NextStart ==
    \/ StartGetopt
    \/ StartConfig
    \/ StartChecks
    \/ StartPrompt
    \/ StartHashes
    \/ StartFree
    \/ StartVerify

SpecStart == InitStart /\ [][NextStart]_vars

(***************************************************************************)
(* The cache of authenticated upstream sockets: connection_list and        *)
(* connection_mtx of main.c, used by the forwarders.  Workers acquire a    *)
(* socket, run the NTLM exchange on it when the upstream asks for it, and  *)
(* release or discard it.                                                  *)
(***************************************************************************)
\* workers inside a forwarder at the same time
MaxPoolWorkers == 2
\* requests forwarded over the life of the process
MaxPoolRequests == 3

PoolWorkers == 1..MaxPoolWorkers

\* no socket; sockets are numbered in the order they are dialled
NoSocket == 0

\* a worker that is not inside a forwarder
FwIdle ==
    [at |-> "idle", sd |-> NoSocket, fresh |-> FALSE, t1 |-> NoSocket,
     t3 |-> NoSocket]

\* a socket right after connect(): open, no Type-3 sent on it yet
Dialled == [open |-> TRUE, auth |-> "none"]

FwSet(w, fields) ==
    fw' = [fw EXCEPT ![w] = [f \in DOMAIN fw[w] |->
                               IF f \in DOMAIN fields THEN fields[f]
                               ELSE fw[w][f]]]

\* the other variables of this part of the model
FwKeep(changed) ==
    /\ "connection_mtx" \in changed \/ connection_mtx' = connection_mtx
    /\ "connection_list" \in changed \/ connection_list' = connection_list
    /\ "upstream" \in changed \/ upstream' = upstream
    /\ "nfw" \in changed \/ nfw' = nfw
    /\ UNCHANGED <<pacparser_mtx, pac_engine, pacp_str, pw>>
    /\ UNCHANGED <<accVars, cfgVars, s5Vars, pxVars, startVars>>

\* the most recent socket of the list, if any
PoolTop ==
    IF connection_list = <<>> THEN NoSocket
    ELSE connection_list[Len(connection_list)]

PoolWithout(s) == SelectSeq(connection_list, LAMBDA x : x # s)

FwLockNoMutex(w) ==
    /\ fw[w].at = "idle"
    /\ nfw < MaxPoolRequests
    /\ nfw' = nfw + 1
    /\ connection_mtx' = Owner(w)
    /\ FwSet(w, [at |-> "locked", sd |-> PoolTop, t1 |-> NoSocket,
                 t3 |-> NoSocket])
    /\ FwKeep({"connection_mtx", "nfw"})

\* acquire, first half: take the pool mutex and look at the list
FwLock(w) ==
    /\ fw[w].at = "idle"
    /\ nfw < MaxPoolRequests
    /\ connection_mtx = Free
    /\ nfw' = nfw + 1
    /\ connection_mtx' = Owner(w)
    /\ FwSet(w, [at |-> "locked", sd |-> PoolTop, t1 |-> NoSocket,
                 t3 |-> NoSocket])
    /\ FwKeep({"connection_mtx", "nfw"})

\* acquire, second half: pop the socket, or find the list empty; unlock
FwAcquire(w) ==
    /\ fw[w].at = "locked"
    /\ connection_mtx' = Free
    /\ IF fw[w].sd # NoSocket
       THEN /\ connection_list' = PoolWithout(fw[w].sd)
            /\ FwSet(w, [at |-> "forward", fresh |-> FALSE])
       ELSE /\ connection_list' = connection_list
            /\ FwSet(w, [at |-> "dial"])
    /\ FwKeep({"connection_mtx", "connection_list"})

\* the list was empty: dial the upstream, outside the mutex
FwDial(w) ==
    /\ fw[w].at = "dial"
    /\ \/ /\ upstream' = Append(upstream, Dialled)
          /\ FwSet(w, [at |-> "type1", sd |-> Len(upstream) + 1,
                       fresh |-> TRUE])
       \/ /\ upstream' = upstream
          /\ FwSet(w, [at |-> "idle"])
    /\ FwKeep({"upstream"})

\* a reused socket: the request is sent as it is; the upstream answers 407,
\* something else, or the socket turns out to be dead
FwForward(w) ==
    /\ fw[w].at = "forward"
    /\ \E answer \in {"407", "other", "error"} :
          FwSet(w, [at |-> IF answer = "407" THEN "type1"
                           ELSE IF answer = "other" THEN "relay"
                           ELSE "discard"])
    /\ FwKeep({})

FwType1ReleasesSocket(w) ==
    /\ fw[w].at = "type1"
    /\ connection_list' = Append(connection_list, fw[w].sd)
    /\ upstream' = upstream
    /\ FwSet(w, [at |-> "type3", t1 |-> fw[w].sd])
    /\ FwKeep({"upstream", "connection_list"})

\* Type-1 is sent; the 407 with the challenge comes back, or no usable
\* challenge (auth failure)
FwType1(w) ==
    /\ fw[w].at = "type1"
    /\ \E challenge \in BOOLEAN :
          IF challenge
          THEN /\ upstream' = upstream
               /\ FwSet(w, [at |-> "type3", t1 |-> fw[w].sd])
          ELSE /\ upstream' = [upstream EXCEPT ![fw[w].sd].auth = "denied"]
               /\ FwSet(w, [at |-> "discard", t1 |-> fw[w].sd])
    /\ FwKeep({"upstream"})

FwType3ReleasesDenied(w) ==
    /\ fw[w].at = "type3"
    /\ \E denied \in BOOLEAN :
          /\ upstream' = [upstream EXCEPT ![fw[w].sd].auth =
                             IF denied THEN "denied" ELSE "ok"]
          /\ FwSet(w, [at |-> "relay", t3 |-> fw[w].sd])
    /\ FwKeep({"upstream"})

\* Type-3 is sent with the request; the answer is a 407 again (denied) or
\* the response
FwType3(w) ==
    /\ fw[w].at = "type3"
    /\ \E denied \in BOOLEAN :
          /\ upstream' = [upstream EXCEPT ![fw[w].sd].auth =
                             IF denied THEN "denied" ELSE "ok"]
          /\ FwSet(w, [at |-> IF denied THEN "discard" ELSE "relay",
                       t3 |-> fw[w].sd])
    /\ FwKeep({"upstream"})

\* the response is relayed; the socket is clean (keep-alive, framing ended,
\* no error) or not
FwRelay(w) ==
    /\ fw[w].at = "relay"
    /\ \E clean \in BOOLEAN :
          FwSet(w, [at |-> IF clean THEN "release" ELSE "discard"])
    /\ FwKeep({})

\* release, first half: take the pool mutex
FwReleaseLock(w) ==
    /\ fw[w].at = "release"
    /\ connection_mtx = Free
    /\ connection_mtx' = Owner(w)
    /\ FwSet(w, [at |-> "pushing"])
    /\ FwKeep({"connection_mtx"})

\* release, second half: push the socket; unlock
FwRelease(w) ==
    /\ fw[w].at = "pushing"
    /\ connection_list' = Append(connection_list, fw[w].sd)
    /\ connection_mtx' = Free
    /\ FwSet(w, [at |-> "idle", sd |-> NoSocket])
    /\ FwKeep({"connection_mtx", "connection_list"})

\* discard: close the socket
FwDiscard(w) ==
    /\ fw[w].at = "discard"
    /\ upstream' = [upstream EXCEPT ![fw[w].sd].open = FALSE]
    /\ FwSet(w, [at |-> "idle", sd |-> NoSocket])
    /\ FwKeep({"upstream"})

InitPool ==
    /\ AccStart
    /\ debug = FALSE
    /\ serialize = FALSE
    /\ users_list = <<>>
    /\ noproxy_list = <<>>
    /\ charSigned = TRUE
    /\ pacBuild = FALSE
    /\ pacparser_initialized = FALSE
    /\ S5Start
    /\ PxStart
    /\ PwStart
    /\ StartDone
    /\ connection_list = <<>>
    /\ fw = [w \in PoolWorkers |-> FwIdle]
    /\ upstream = <<>>
    /\ nfw = 0

NextPool ==
    \E w \in PoolWorkers :
       \/ FwLock(w)
       \/ FwAcquire(w)
       \/ FwDial(w)
       \/ FwForward(w)
       \/ FwType1(w)
       \/ FwType3(w)
       \/ FwRelay(w)
       \/ FwReleaseLock(w)
       \/ FwRelease(w)
       \/ FwDiscard(w)

SpecPool == InitPool /\ [][NextPool]_vars

(***************************************************************************)
(* Properties.                                                             *)
(***************************************************************************)
\* workers that were started: a thread was created or the inline call made
Started(w) == conns[w].mode \in {"thread", "inline"}

\* workers that still run or still wait to be joined
Unjoined(w) ==
    /\ Started(w)
    /\ conns[w].st \notin {"joined", "returned"}

LoopExited == pc \in {"bailout", "exited"}

\* C1: after the first shutdown signal the acceptor accepts no further
\* connection and starts no further worker.
C1_NoAcceptAfterFirstSignal ==
    [][quit >= 1 => conns' = conns \/ Len(conns') = Len(conns)]_vars

\* C2: with exactly one signal received (quit = 1) the acceptor loop exits
\* only when tj = tc, and then no started worker is running or unjoined.
C2_GracefulExitWaits ==
    [][(pc = "test" /\ pc' = "bailout" /\ quit = 1)
         => (tc = tj /\ \A w \in 1..Len(conns) : ~Unjoined(w))]_vars

C2_Witness ==
    /\ pc = "bailout"
    /\ quit = 1
    /\ tc >= 1
    /\ tj = tc

\* C3: after one shutdown signal, if every running worker eventually
\* finishes, the acceptor loop exits and the process terminates without a
\* second signal, whatever kinds of workers were started.
C3_GracefulShutdownTerminates ==
    (quit = 1) ~> (pc = "exited" \/ quit >= 2)

\* C4: with quit >= 2 the loop exits the next time its condition is
\* evaluated, also with tc # tj, and the process then terminates.
C4_ForcedExit ==
    /\ [][(pc = "test" /\ quit >= 2 /\ pc' # pc) => pc' = "bailout"]_vars
    /\ (pc = "test" /\ quit >= 2) ~> (pc = "exited")

C4_Witness ==
    /\ pc = "exited"
    /\ quit >= 2
    /\ tc # tj
    /\ \E w \in 1..Len(conns) : conns[w].st = "serving"

\* the kind of a listener, from the list main() registered it in
ListenerKind(i) ==
    IF i \in proxyd_list THEN "PROXY"
    ELSE IF i \in socksd_list THEN "SOCKS5"
    ELSE "TUNNEL"

RoutineOfKind(k) ==
    IF k = "PROXY" THEN "proxy_thread"
    ELSE IF k = "SOCKS5" THEN "socks5_thread"
    ELSE "tunnel_thread"

\* C5: every accepted connection is handed to one worker routine, the one
\* of the listener it arrived on, and a tunnel worker gets the target that
\* was registered for that same listener socket.
C5_DispatchByListener ==
    \A w \in 1..Len(conns) :
        /\ conns[w].lfd \in WatchedFds
        /\ conns[w].mode \in {"thread", "inline", "failed"}
        /\ conns[w].routine = RoutineOfKind(ListenerKind(conns[w].lfd))
        /\ ListenerKind(conns[w].lfd) = "TUNNEL"
              => /\ conns[w].target # NoTarget
                 /\ conns[w].target = tunneld_list[conns[w].lfd]

C5_Witness ==
    \E v, w \in 1..Len(conns) :
        /\ conns[v].lfd = "fd2" /\ conns[v].target = "hostA:22"
        /\ conns[w].lfd = "fd5" /\ conns[w].target = "hostB:443"
        /\ conns[v].st = "serving" /\ conns[w].st = "serving"

\* C6: in serialize mode every accepted connection, on any listener kind,
\* is served inline on the acceptor: a worker runs only while the acceptor
\* is inside the inline call, and never beside another worker.
C6_SerializeServesInline ==
    serialize =>
        /\ \A w \in 1..Len(conns) :
              Started(w) => conns[w].mode = "inline"
        /\ \A w \in 1..Len(conns) :
              conns[w].st \in {"serving", "served", "locked", "enqueued"}
                 => (pc \in {"inline", "exited"} /\ w = Len(conns))

(***************************************************************************)
(* Properties of a proxy worker.                                           *)
(***************************************************************************)
MatchesSomePattern(hostname) ==
    \E k \in DOMAIN noproxy_list : fnmatch(noproxy_list[k], hostname)

\* C7: a request whose host name matches a no-proxy pattern goes to the
\* direct forwarder, never to the PAC or the static-upstream forwarder,
\* whether it was read from the client or handed back by a forwarder, and
\* also when the PAC evaluator is initialised.
C7_NoProxyPrecedence ==
    (call.fwd # "none" /\ MatchesSomePattern(call.request.hostname))
       => call.fwd = "direct"

\* a record handed back by a forwarder matches a pattern while PAC is
\* initialised, and was served directly
C7_Witness ==
    /\ pacparser_initialized
    /\ call.fwd = "direct"
    /\ call.request.origin = "forwarder"
    /\ MatchesSomePattern(call.request.hostname)

(***************************************************************************)
(* Properties of a SOCKS5 session.                                         *)
(***************************************************************************)
Offered == {auths[k] : k \in DOMAIN auths}

InTable(name, pass) ==
    \E k \in DOMAIN users_list : users_list[k] = <<name, pass>>

C9_AuthGatesRequest ==
    users_list # <<>> =>
        /\ (bs # <<>> \/ sd # "none"
              \/ s5pc \in {"request", "address", "connect", "tunnel"})
             => (client.whole /\ InTable(client.uname, client.pass))
        /\ (client.whole /\ ~InTable(client.uname, client.pass)
              /\ s5pc \in {"bailout", "closed"})
             => /\ sent[Len(sent)] = <<1, 255>>
                /\ sd = "none"
                /\ s5pc = "closed" => closes = <<1, 0>>

\* the same where plain char is unsigned (PLEN is never negative)
C9_HoldsWithUnsignedChar ==
    ~charSigned => C9_AuthGatesRequest

\* C10: a request that is not CONNECT is refused with reply code 0x07, a
\* CONNECT with ATYP IPv6 with 0x08; no outbound connection is made and
\* the client connection is closed.
C10_RefusalCodes ==
    bs # <<>> =>
        /\ bs[1] # 1 =>
              /\ sent[Len(sent)] = <<5, 7>>
              /\ sd = "none"
              /\ s5pc \in {"bailout", "closed"}
        /\ (bs[1] = 1 /\ bs[2] = 4) =>
              /\ sent[Len(sent)] = <<5, 8>>
              /\ sd = "none"
              /\ s5pc \in {"bailout", "closed"}

\* what the code does instead: every refusal carries code 0x02
C10_RefusedWithCode2 ==
    (bs # <<>> /\ (bs[1] # 1 \/ bs[2] = 4)) =>
        /\ sent[Len(sent)] = <<5, 2>>
        /\ sd = "none"
        /\ s5pc \in {"bailout", "closed"}
        /\ s5pc = "closed" => closes = <<1, 0>>

\* the address the client asked for, as text, without the port
AddrText == IF bs[2] = 1 THEN DottedQuad(addr) ELSE addr

\* C11: a CONNECT to an IPv4 address or a name is made directly iff the
\* textual address matches a no-proxy pattern, and then to that address and
\* port; otherwise through the upstream proxy with an HTTP CONNECT for
\* "host:port"; the byte pump starts only if the chosen step succeeded.
C11_SocksRouting ==
    out.via # "none" =>
        /\ out.via = "direct" <=> MatchesSomePattern(AddrText)
        /\ out.via = "direct" => (out.host = AddrText /\ out.port = port)
        /\ out.via = "proxy" => out.host = AddrText \o <<":">> \o port
        /\ s5pc = "tunnel" => out.ok

\* the same for the addresses whose "host:port" fits the buffer
C11_HoldsWhenHostFits ==
    (out.via # "none" /\ Len(AddrText) + 1 + Len(port) < MINIBUF_SIZE)
       => C11_SocksRouting

\* C12: a SOCKS5 or PROXY worker that has ended has closed the client
\* socket exactly once, whatever path it took, and a SOCKS5 worker has
\* closed the outbound socket once if it had opened one; nothing is closed
\* before the worker's exit path.
C12_SocketsClosedOnce ==
    /\ s5pc = "closed" =>
          closes = <<1, IF sd # "none" THEN 1 ELSE 0>>
    /\ s5pc \notin {"closed"} => closes = <<0, 0>>
    /\ pxpc = "done" => pxclosed = 1
    /\ pxpc # "done" => pxclosed = 0

\* the upstream proxy was reached but the CONNECT failed: both sockets closed
C12_Witness ==
    /\ s5pc = "closed"
    /\ out.via = "proxy"
    /\ sd = "proxy"
    /\ ~out.ok
    /\ closes = <<1, 1>>

\* C13: an accepted client socket whose worker could not be started is
\* closed: once the acceptor has handled the failure of pthread_create(),
\* no accepted socket is left open without a worker that owns it.
C13_NoOrphanSocket ==
    \A w \in DOMAIN conns :
        (conns[w].mode = "failed" /\ ~(w = Len(conns) /\ pc = "count"))
           => conns[w].st = "closed"

(***************************************************************************)
(* Properties of proxy workers running side by side.                       *)
(***************************************************************************)
InFindProxy == {w \in DOMAIN pw : pw[w].at = "incall"}

\* C14: at no time are two workers inside pacparser_find_proxy(), whether
\* they came from the lookup of a first request or of a re-dispatched one.
C14_FindProxySerialized ==
    Cardinality(InFindProxy) <= 1

\* one worker is inside the call for a re-dispatched record while another
\* waits for the lock with its first request
C14_Witness ==
    \E v, w \in DOMAIN pw :
        /\ pw[v].at = "incall"
        /\ pw[v].from = "forwarder"
        /\ pw[w].at = "lock"
        /\ pw[w].from = "client"

\* the places where a worker reads from or writes to a socket, or has
\* returned
AtSocket(w) == pw[w].at \in {"recv", "io", "tunnel", "close", "done"}

HoldsLock(w) ==
    \/ threads_mtx = Owner(w)
    \/ connection_mtx = Owner(w)
    \/ pacparser_mtx = Owner(w)

\* C15: a worker that is at a socket operation, or has returned, holds none
\* of threads_mtx, connection_mtx and pacparser_mtx.
C15_NoLockAcrossIO ==
    \A w \in DOMAIN pw : AtSocket(w) => ~HoldsLock(w)

\* a worker is back at its sockets after the PAC lookup while another one
\* holds the PAC lock
C15_Witness ==
    \E v, w \in DOMAIN pw :
        /\ pw[v].at = "io"
        /\ pw[v].pac_found
        /\ pacparser_mtx = Owner(w)
        /\ v # w

\* the sentinels by which a forwarder asks for the connection to be closed
CloseSentinels == {"CLOSE", "PACFAIL"}

\* C16: after a request, the worker reads a further request from the same
\* connection iff the request it dispatched last carried Proxy-Connection:
\* keep-alive, the forwarder returned no close sentinel, and serialize mode
\* is off; otherwise it goes to its exit path, closes the client socket
\* once and ends.  A further read happens in no other way.
C16_KeepAliveLoop ==
    [][ /\ pxpc = "outer" =>
              IF call.request.ka /\ ret.code \notin CloseSentinels /\ ~serialize
              THEN pxpc' = "recv"
              ELSE pxpc' = "exit"
        /\ (pxpc # "recv" /\ pxpc' = "recv") => pxpc = "outer"
        /\ pxpc = "exit" => (pxpc' = "done" /\ pxclosed' = pxclosed + 1)
      ]_vars

\* a second read on a connection whose first request asked for keep-alive
C16_Witness ==
    /\ pxpc = "recv"
    /\ nreq = 1
    /\ call.request.ka
    /\ ret.code = "NULL"
    /\ ~serialize

(***************************************************************************)
(* Properties of the start-up part of main().                              *)
(***************************************************************************)
\* the cleartext password in force: the one stored in cpassword last
Cleartext == supplied[Len(supplied)]

\* C17: when main() reaches the acceptor loop after a cleartext password
\* was supplied (option -p, Password in the file, or the prompt), every
\* hash the policy enables is the hash of that password, and no byte of the
\* password buffer is left non-zero.
C17_PasswordHashedAndWiped ==
    (spc = "loop" /\ supplied # <<>>) =>
        /\ g_creds.hashnt # 0 => g_creds.passnt = HashOf("NT", Cleartext)
        /\ g_creds.hashlm # 0 => g_creds.passlm = HashOf("LM", Cleartext)
        /\ g_creds.hashntlm2 # 0 =>
              g_creds.passntlm2 = HashOf("NTLMv2", Cleartext)
        /\ AllZero(cpassword)

\* C18: every buffer of the start-up part that held a cleartext password or
\* a hash (cpassword, the temporary hash buffers, the hash strings of the
\* file) has only zero bytes when free() is called on it.
C18_SecretsZeroedBeforeFree ==
    \A f \in freed : f.zeroed

\* every hash the policy enables is stored and not all zero
HashesPresent ==
    /\ g_creds.hashnt # 0 => g_creds.passnt # ZeroHash
    /\ g_creds.hashlm # 0 => g_creds.passlm # ZeroHash
    /\ g_creds.hashntlm2 # 0 => g_creds.passntlm2 # ZeroHash

\* NTLM-to-basic mode or Kerberos: no stored hash is needed
NoHashNeeded == ntlmbasic \/ g_creds.haskrb

\* C19: main() enters the acceptor loop only if every hash kind the policy
\* enables has a stored hash that is not all zero, or NTLM-to-basic mode or
\* Kerberos is in use; a start-up that reaches the password check without
\* that ends with exit code 1 instead of entering the loop.
C19_LoopOnlyWithHashes ==
    [][ /\ spc' = "loop" => (NoHashNeeded \/ HashesPresent)'
        /\ ( /\ spc = "verify"
             /\ ~magic_detect
             /\ ~interactivehash
             /\ ~(NoHashNeeded \/ HashesPresent) ) => spc' = "exit1" ]_vars

C19_Witness ==
    /\ spc = "loop"
    /\ ~NoHashNeeded
    /\ g_creds.hashnt # 0
    /\ g_creds.hashlm # 0
    /\ HashesPresent

\* the command line and the configuration file have been processed
SettingsProcessed == spc \notin {"getopt"}

\* C20: once the command line and the configuration file are processed,
\* every listener given without a host is bound to all interfaces if
\* gateway mode is on and to loopback if it is off, whatever the order of
\* the gateway setting and the listener specifications was.
C20_GatewayBindingAnyOrder ==
    SettingsProcessed =>
        \A b \in bound :
            b.iface # "host" =>
                b.iface = IF gateway THEN "any" ELSE "loopback"

(***************************************************************************)
(* Properties of a worker and the process around it.                       *)
(***************************************************************************)
\* the SOCKS5 session failed: it reached bailout without a tunnel
S5Failed == s5pc = "closed" /\ ~(out.ok /\ sent # <<>> /\ sd # "none")

\* the proxy worker ended on a failure: no request read, or a close sentinel
PxFailed == pxpc = "done" /\ (nreq = 0 \/ ret.code \in {"CLOSE", "PACFAIL"})

Holders(s) ==
    { w \in PoolWorkers :
         fw[w].sd = s /\ fw[w].at \notin {"idle", "locked"} }

InPool(s) == \E k \in 1..Len(connection_list) : connection_list[k] = s

Sockets == 1..Len(upstream)

\* C22 (I1): whatever the interleaving of acquire, release and discard, a
\* socket is held by at most one worker, a socket in the list is held by
\* nobody, and the list holds no socket twice.
C22_OneHolderPerSocket ==
    \A s \in Sockets :
        /\ Cardinality(Holders(s)) <= 1
        /\ InPool(s) => Holders(s) = {}
        /\ Cardinality({k \in 1..Len(connection_list) :
                           connection_list[k] = s}) <= 1

\* two workers are inside a forwarder, one on a socket the other released
C22_Witness ==
    \E s \in Sockets, v \in PoolWorkers, w \in PoolWorkers :
        /\ v # w
        /\ Holders(s) = {v}
        /\ fw[v].fresh = FALSE
        /\ fw[w].sd \notin {s, NoSocket}
        /\ fw[w].at \notin {"idle", "locked"}

\* worker w is between its Type-1 and the answer to its Type-3
InHandshake(w) == fw[w].at = "type3"

\* C23: for every request that was answered 407, the Type-3 goes out on
\* the socket that carried the Type-1; between the two the socket is not
\* in the list and no other worker holds it.
C23_HandshakeOnOneSocket ==
    \A w \in PoolWorkers :
        /\ InHandshake(w) =>
              /\ fw[w].t1 = fw[w].sd
              /\ ~InPool(fw[w].sd)
              /\ Holders(fw[w].sd) = {w}
        /\ fw[w].t3 # NoSocket => fw[w].t3 = fw[w].t1

\* a reused socket was answered 407 and the Type-3 has gone out on it
C23_Witness ==
    \E w \in PoolWorkers :
        /\ fw[w].t3 # NoSocket
        /\ fw[w].t3 = fw[w].t1
        /\ ~fw[w].fresh
        /\ Len(upstream) >= 2

\* C24: every socket in the list is open and its last Type-3 was answered
\* with something other than a 407; a socket whose authentication was
\* denied is never in the list, and once its worker has let go of it, it is
\* closed.
C24_PoolHoldsAuthenticated ==
    \A s \in Sockets :
        /\ InPool(s) => upstream[s].open /\ upstream[s].auth = "ok"
        /\ upstream[s].auth = "denied" =>
              /\ ~InPool(s)
              /\ Holders(s) = {} => ~upstream[s].open

\* from a cold start the first request ended in auth-denied: list empty
C24_Witness ==
    /\ Len(upstream) = 1
    /\ upstream[1].auth = "denied"
    /\ ~upstream[1].open
    /\ connection_list = <<>>
    /\ \A w \in PoolWorkers : fw[w].at = "idle"

(***************************************************************************)
(* Properties of the acceptor in debug mode.                               *)
(***************************************************************************)
\* C28: in debug mode the first signal already sets quit to 2, and from
\* then on the acceptor loop exits and the process ends, whether or not
\* workers are still running.
C28_DebugSignalForcesExit ==
    /\ [](debug /\ nsig >= 1 => quit >= 2)
    /\ (debug /\ quit >= 2) ~> (pc = "exited")

\* the same with workers that run as threads: the acceptor is never inside
\* a worker
C28_HoldsWhenThreaded ==
    /\ [](debug /\ nsig >= 1 => quit >= 2)
    /\ (debug /\ quit >= 2 /\ ~serialize) ~> (pc = "exited")

(***************************************************************************)
(* Properties of the list of finished workers.                             *)
(***************************************************************************)
\* the places of worker w in threads_list
Listings(w) == { k \in 1..Len(threads_list) : threads_list[k] = w }

Listed(w) == Listings(w) # {}

Joined(w) == conns[w].st = "joined"

\* C27: a threaded PROXY or TUNNEL worker puts its handle on threads_list
\* once, holding threads_mtx, after it has served; the acceptor joins every
\* listed handle once (tj counts each of them once) and, as long as its
\* loop runs, every listed handle is joined in the end.
C27_EnqueuedOnceJoinedOnce ==
    /\ [](\A w \in DOMAIN conns :
             /\ Cardinality(Listings(w)) <= 1
             /\ Listed(w) =>
                   /\ conns[w].mode = "thread"
                   /\ Enqueues(conns[w].routine, serialize)
                   /\ conns[w].st \in {"enqueued", "terminated", "joined"}
             /\ Joined(w) => Enqueues(conns[w].routine, serialize))
    /\ [](tj = Cardinality({w \in DOMAIN conns : Joined(w)}))
    /\ [][\A w \in DOMAIN conns :
             /\ (Listed(w)' /\ ~Listed(w)) =>
                   /\ threads_mtx = Owner(w)
                   /\ conns[w].st = "locked"
             /\ (Joined(w)' /\ ~Joined(w)) =>
                   /\ Listed(w)
                   /\ threads_mtx = MainOwner
                   /\ tj' = tj + 1
             /\ Joined(w) => Joined(w)']_vars
    /\ \A w \in 1..MaxJoinConn :
          (w \in DOMAIN conns /\ Listed(w))
             ~> \/ w \in DOMAIN conns /\ Joined(w) /\ ~Listed(w)
                \/ pc \in {"bailout", "exited"}

\* the same without -s: every worker is a thread beside the acceptor
C27_HoldsWhenThreaded ==
    \A w \in 1..MaxJoinConn :
        (~serialize /\ w \in DOMAIN conns /\ Listed(w))
           ~> \/ w \in DOMAIN conns /\ Joined(w) /\ ~Listed(w)
              \/ pc \in {"bailout", "exited"}


(***************************************************************************)
(* Properties of the re-dispatch loop and of the PAC lookup.               *)
(***************************************************************************)
\* C25: when the forwarder has returned a record, the next round serves that
\* record without reading from the client: the no-proxy match chooses the
\* forwarder for the record's host name, and in a PAC build the proxy list
\* is looked up again for the record; the inner loop goes round again
\* exactly when the forwarder returned a record, and ends when it returned
\* NULL or a sentinel.
C25_RedispatchOfReturnedRecord ==
    [][pxpc = "dispatch" =>
          /\ IsRecord(ret) =>
                /\ nreq' = nreq
                /\ request' = ret.rec
                /\ call'.request = ret.rec
                /\ keep_alive' = ret.rec.ka
                /\ call'.fwd = ChooseForwarder(ret.rec.hostname)
                /\ pacBuild => pac_list' = PacResult(ret.rec)
                /\ call'.fwd = "pac" => call'.list = PacResult(ret.rec)
          /\ pxpc' = "dispatch" <=> IsRecord(ret')
          /\ pxpc' # "dispatch" => pxpc' = "outer"]_vars

\* a returned record for another host than the client's request has been
\* served through the PAC forwarder, and the loop has ended after it
C25_Witness ==
    /\ pxpc = "outer"
    /\ nredisp = 1
    /\ nreq = 1
    /\ call.request.origin = "forwarder"
    /\ call.fwd = "pac"
    /\ call.list = PacResult(call.request)
    /\ ret.code = "CLOSE"

\* C26: in a PAC build with the evaluator initialised, the proxy list handed
\* to the PAC forwarder is the evaluator's answer for the request that is
\* being served, for the first request of a connection and for every later
\* one.
C26_PacListOfOwnRequest ==
    (pacparser_initialized /\ call.fwd = "pac")
        => call.list = PacResult(call.request)
(***************************************************************************)
(* Properties of the start-up checks.                                      *)
(***************************************************************************)
ProxyListenerOpen == \E b \in bound : b.list = "proxyd_list"

UpstreamOrPac == parent_list # <<>> \/ (pacBuild /\ pac)

\* C29: main() reaches the acceptor loop only with a PROXY listener that was
\* bound and with a parent proxy or a PAC file; a start-up that is to serve
\* and comes to the checks with no bound PROXY listener (only SOCKS5 or
\* tunnel listeners, or none) or with neither a parent nor a PAC file ends
\* with exit status 1 there, before a connection is accepted.
C29_LoopNeedsListenerAndUpstream ==
    /\ [](spc = "loop" => (ProxyListenerOpen /\ UpstreamOrPac))
    /\ [][(/\ spc = "checks"
           /\ ~interactivehash
           /\ ~magic_detect
           /\ ~(ProxyListenerOpen /\ UpstreamOrPac))
              => (spc' = "exit1" /\ attempts' = 0 /\ tc' = 0)]_vars

\* the loop is reached with a PAC file in place of a parent proxy, beside a
\* PROXY listener and a SOCKS5 listener
C29_Witness ==
    /\ spc = "loop"
    /\ parent_list = <<>>
    /\ pac
    /\ ProxyListenerOpen
    /\ \E b \in bound : b.list = "socksd_list"

\* a start-up with a parent proxy and only a SOCKS5 listener has ended with
\* exit status 1 at the checks
C29_RefusedWitness ==
    /\ spc = "exit1"
    /\ parent_list # <<>>
    /\ ~ProxyListenerOpen
    /\ \E b \in bound : b.list = "socksd_list"
    /\ ~pacparser_initialized
    /\ cauth = <<>>
(***************************************************************************)
(* The order of what a SOCKS5 worker writes to its client.                 *)
(***************************************************************************)
\* what sent[k] is: the method selection is the first write; later writes
\* are sub-negotiation replies (version 1), request replies (version 5) or
\* relayed octets
IsSubReply(k) == k > 1 /\ Len(sent[k]) = 2 /\ sent[k][1] = 1
IsRequestReply(k) == k > 1 /\ Len(sent[k]) = 2 /\ sent[k][1] = 5
IsRelayed(k) == Len(sent[k]) = 1

\* C30: the method selection is the first thing written; a sub-negotiation
\* reply comes right after it and before the request reply; the success
\* reply 05 00 is written only with the outbound connection established and
\* before any relayed octet; after the failure reply 05 01 nothing is
\* relayed and the session ends.
C30_ReplyOrder ==
    /\ sent # <<>> => (Len(sent[1]) = 2 /\ sent[1][1] = 5)
    /\ \A k \in DOMAIN sent :
          /\ IsSubReply(k) => k = 2
          /\ IsRequestReply(k) =>
                /\ k \in {2, 3}
                /\ k = 3 => IsSubReply(2)
                /\ \A j \in 1..(k - 1) : ~IsRelayed(j)
          /\ (IsRequestReply(k) /\ sent[k][2] = 0) =>
                /\ out.ok
                /\ sd # "none"
                /\ s5pc \in {"tunnel", "bailout", "closed"}
          /\ (IsRequestReply(k) /\ sent[k][2] # 0) =>
                /\ k = Len(sent)
                /\ s5pc \in {"bailout", "closed"}
                /\ \A j \in DOMAIN sent : ~IsRelayed(j)
          /\ IsRelayed(k) =>
                /\ k > 1
                /\ IsRequestReply(k - 1)
                /\ sent[k - 1][2] = 0

\* method 02, a good sub-negotiation, success, then relayed octets
C30_Witness ==
    sent = << <<5, 2>>, <<1, 0>>, <<5, 0>>, Payload >>

\* the connection through the upstream proxy failed after method 00: the
\* failure reply is the last thing written
C30_FailureWitness ==
    /\ sent = << <<5, 0>>, <<5, 1>> >>
    /\ out.via = "proxy"
    /\ s5pc = "closed"
(***************************************************************************)
(* The thread counters of the acceptor.                                    *)
(***************************************************************************)
\* the worker of the connection accepted last is between its start and the
\* if (tid) ... else tc++ that accounts for it
BeingCounted(w) == w = Len(conns) /\ pc \in {"count", "inline"}

\* workers that were started, are accounted for and have not been joined
ActiveWorkers ==
    {w \in DOMAIN conns :
        Started(w) /\ ~BeingCounted(w) /\ conns[w].st # "joined"}

\* C31: tj never exceeds tc, and tc - tj is the number of workers that were
\* started and have not been joined, for workers of every listener kind,
\* threads and inline calls alike.
C31_ActiveThreadCount ==
    /\ tj <= tc
    /\ tc - tj = Cardinality(ActiveWorkers)

\* the same without serialize mode
C31_HoldsWhenThreaded ==
    ~serialize => C31_ActiveThreadCount
(***************************************************************************)
(* The join loop and the lock of the list of finished threads.             *)
(***************************************************************************)
\* the worker has unlocked threads_mtx after adding its handle
PastTheLock(w) == conns[w].st \in {"enqueued", "terminated", "joined"}

\* the worker waits in pthread_mutex_lock(&threads_mtx)
WaitsForLock(w) ==
    /\ w \in DOMAIN conns
    /\ conns[w].st = "served"
    /\ Enqueues(conns[w].routine, serialize)

\* C32: while the acceptor joins under threads_mtx, every handle it finds
\* is that of a worker which has unlocked the mutex and never takes it
\* again; the worker whose handle is being joined can end without the
\* mutex, so each join completes, and whoever holds the mutex while a
\* worker waits for it can go on to unlock it: there is no deadlock.
C32_JoinUnderLockNoDeadlock ==
    /\ [](pc = "join" =>
            /\ threads_mtx = MainOwner
            /\ \A k \in DOMAIN t : PastTheLock(t[k])
            /\ t # <<>> => (\/ ENABLED JoinOne
                            \/ ENABLED WorkerReturn(Head(t)))
            /\ t = <<>> => ENABLED JoinEnd)
    /\ [][\A w \in DOMAIN conns :
            PastTheLock(w) =>
               (PastTheLock(w)' /\ threads_mtx' # Owner(w))]_vars
    /\ [](\A w \in DOMAIN conns :
            (WaitsForLock(w) /\ pc # "exited") =>
               \/ ENABLED WorkerLock(w)
               \/ threads_mtx = MainOwner /\ pc = "join"
               \/ \E v \in DOMAIN conns :
                     threads_mtx = Owner(v) /\ ENABLED WorkerEnqueue(v))

\* the same as progress, with the acceptor and the workers' housekeeping
\* scheduled fairly: the join loop ends, and a waiting worker gets past the
\* mutex unless the process exits first
C32_ProgressUnderFairness ==
    /\ (pc = "join") ~> (pc = "test" /\ threads_mtx # MainOwner)
    /\ \A w \in 1..MaxJoinConn :
          WaitsForLock(w) ~>
             (\/ w \in DOMAIN conns /\ PastTheLock(w)
              \/ pc = "exited")

\* the acceptor holds the mutex in its join loop, with the handle of one
\* worker that has not ended yet, while another worker waits for the mutex
C32_Witness ==
    /\ pc = "join"
    /\ t # <<>>
    /\ conns[Head(t)].st = "enqueued"
    /\ \E w \in DOMAIN conns : WaitsForLock(w)
(***************************************************************************)
(* The shared result string of the PAC evaluator.                          *)
(***************************************************************************)
\* C33: from the return of a worker's pacparser_find_proxy() call until its
\* pac_create_list() has copied the shared string, the string holds the
\* answer for that worker's own request, and the list the worker makes of
\* it is that answer.
C33_PacResultOfOwnRequest ==
    \A w \in DOMAIN pw :
       /\ pw[w].at \in {"unlock", "copy"}
             => pacp_str = PacAnswer(pac_engine, pw[w].req)
       /\ (pw[w].at \in {"dispatch", "pooled", "io"} /\ pacBuild)
             => pw[w].pac_list = PacAnswer(pac_engine, pw[w].req)

\* the same while only one of the workers uses the evaluator
C33_HoldsForLoneCaller ==
    (\E v \in DOMAIN pw : pw[v].routine = "tunnel_thread")
        => C33_PacResultOfOwnRequest
(***************************************************************************)
(* The PAC evaluator at shutdown.                                          *)
(***************************************************************************)
\* C34: once a signal has cleaned up the PAC evaluator no worker enters
\* pacparser_find_proxy() any more, and the cleanup does not happen while a
\* worker is inside the call.
C34_NoEvaluatorUseAfterCleanup ==
    [][/\ pac_engine = "cleaned" => InFindProxy' \subseteq InFindProxy
       /\ (pac_engine # "cleaned" /\ pac_engine' = "cleaned")
             => InFindProxy = {}]_vars

\* the first half alone: no call is entered after the cleanup
C34_NoCallAfterCleanup ==
    [][pac_engine = "cleaned" => InFindProxy' \subseteq InFindProxy]_vars

\* the second half alone: no cleanup during a call
C34_NoCleanupDuringCall ==
    [][(pac_engine # "cleaned" /\ pac_engine' = "cleaned")
          => InFindProxy = {}]_vars
(***************************************************************************)
(* The length of the password in the SOCKS5 sub-negotiation.               *)
(***************************************************************************)
\* C35: whatever the PLEN octet is, the worker takes its unsigned value as
\* the length of the password: the length is never negative, the buffer
\* has room for it and the terminator, and the password read is the PLEN
\* octets the client sent.
C35_PasswordLengthUnsigned ==
    /\ s5pc = "pass" =>
          /\ c = PwLen(client.pass)
          /\ c >= 0
          /\ c + 1 > 0
    /\ (s5pc = "check" /\ client.pass # Unset) =>
          /\ c = PwLen(client.pass)
          /\ upass = client.pass
    /\ s5pc # "crashed"

\* the same where plain char is unsigned
C35_HoldsWithUnsignedChar ==
    ~charSigned => C35_PasswordLengthUnsigned
====
